---- MODULE Spec2Model ----
(***************************************************************************)
(* Model of the emoji-to-icon mapping script                               *)
(* (createEmojiToIconMapping and main): candidate collection, conflict     *)
(* resolution, manual tie-breaking overrides, the three sorted views and   *)
(* their serialization; and of the scripts that produce its input:         *)
(* groupIconSets (group-icon-sets.ts) and the orchestration of the         *)
(* classification (assign-emoji.ts), each under a specification of its     *)
(* own.                                                                    *)
(*                                                                         *)
(* A label (emoji string) is a sequence of symbols; the empty sequence is  *)
(* the empty string.  A JavaScript object with string keys is a sequence   *)
(* of [key, val] records in insertion order (the order of Object.keys).    *)
(***************************************************************************)
EXTENDS Integers, Sequences, FiniteSets, TLC

VARIABLES pc, assignments, conflicts, primaryMappings, alternativeMappings,
          totalMappings, emojiToIcon, emojiTies, manualTies, manualOverrides,
          files, logMessages, logFile, exitCode, run, previous

\* groupIconSets: its arguments, where the call is, and what it returned.
VARIABLES pngFiles, maxGroupSize, minSubgroupSize, maxExtrasGroupSize,
          grouping, finalGroups

\* The orchestration script (assign-emoji.ts): where main is, the icon
\* groups, the result file of each group, the lists of
\* filterProcessedGroups, the state of each group in the mergeMap, the
\* counters of main and the aggregated output file.
VARIABLES orchestration, allIconGroups, groupFile, pendingGroups, existingGroups,
          analysis, progress, errors, newAssignments, outputFile

mappingVars == <<pc, assignments, conflicts, primaryMappings, alternativeMappings,
                 totalMappings, emojiToIcon, emojiTies, manualTies, manualOverrides,
                 files, logMessages, logFile, exitCode, run, previous>>

groupingVars == <<pngFiles, maxGroupSize, minSubgroupSize, maxExtrasGroupSize,
                  grouping, finalGroups>>

orchestrationVars == <<orchestration, allIconGroups, groupFile, pendingGroups,
                       existingGroups, analysis, progress, errors, newAssignments,
                       outputFile>>

vars == <<mappingVars, groupingVars, orchestrationVars>>

\* groupIconSets is not being called.
GroupingIdle ==
    /\ pngFiles = <<>>
    /\ maxGroupSize = 0
    /\ minSubgroupSize = 0
    /\ maxExtrasGroupSize = 0
    /\ grouping = "idle"
    /\ finalGroups = <<>>

\* The orchestration script is not running.
OrchestrationIdle ==
    /\ orchestration = "idle"
    /\ allIconGroups = <<>>
    /\ groupFile = <<>>
    /\ pendingGroups = <<>>
    /\ existingGroups = <<>>
    /\ analysis = <<>>
    /\ progress = 0
    /\ errors = 0
    /\ newAssignments = 0
    /\ outputFile = [written |-> FALSE]

(***************************************************************************)
(* Bounds of the checked inputs.                                           *)
(***************************************************************************)
MaxAssignments == 2

MaxOverrideEntries == 2

(***************************************************************************)
(* Values.                                                                 *)
(***************************************************************************)
\* The empty string.
EmptyLabel == <<>>

\* A property that is not there reads as undefined.
Undefined == "<undefined>"

\* What reading an inherited property of a plain object yields (a function
\* or object of Object.prototype): truthy and never equal to a string.
Inherited == "<inherited>"

\* Names every plain object inherits from Object.prototype ("constructor",
\* "toString", "valueOf", ...); one representative.
ObjectPrototypeNames == {<<"constructor">>}

Whitespace == {" "}

\* JavaScript truthiness of a string-or-undefined value.
Truthy(v) == v \notin {Undefined, ""}

(***************************************************************************)
(* Plain objects as insertion-ordered dictionaries.                        *)
(***************************************************************************)
Keys(obj) == [i \in 1..Len(obj) |-> obj[i].key]

KeySet(obj) == {obj[i].key : i \in 1..Len(obj)}

HasOwn(obj, k) == \E i \in 1..Len(obj) : obj[i].key = k

OwnValue(obj, k) == obj[CHOOSE i \in 1..Len(obj) : obj[i].key = k].val

\* obj[k] as an expression: own property, else the prototype chain.
Lookup(obj, k) ==
    IF HasOwn(obj, k) THEN OwnValue(obj, k)
    ELSE IF k \in ObjectPrototypeNames THEN Inherited
    ELSE Undefined

\* obj[k] = v
Assign(obj, k, v) ==
    IF HasOwn(obj, k)
    THEN [i \in 1..Len(obj) |-> IF obj[i].key = k THEN [key |-> k, val |-> v] ELSE obj[i]]
    ELSE Append(obj, [key |-> k, val |-> v])

(***************************************************************************)
(* Strings.                                                                *)
(***************************************************************************)
RECURSIVE TrimStart(_)
TrimStart(s) ==
    IF s # <<>> /\ Head(s) \in Whitespace THEN TrimStart(Tail(s)) ELSE s

RECURSIVE TrimEnd(_)
TrimEnd(s) ==
    IF s # <<>> /\ s[Len(s)] \in Whitespace THEN TrimEnd(SubSeq(s, 1, Len(s) - 1)) ELSE s

\* String.prototype.trim
Trim(s) == TrimEnd(TrimStart(s))

(***************************************************************************)
(* Input domains.                                                          *)
(***************************************************************************)
\* Asset identifiers; "" is the empty string.
Filenames == {"add", "plus", ""}

\* "U+2699" is GEAR and "U+270F" is PENCIL: emoji whose default presentation
\* is text, here without a variation selector after them.
Gear == <<"U+2699">>

Pencil == <<"U+270F">>

\* "U+2795" is HEAVY PLUS SIGN (one UTF-16 code unit), "U+1F4C4" is PAGE
\* FACING UP (a surrogate pair).
SubEmojis == {EmptyLabel, <<" ">>, <<"U+1F4C4">>}

\* Confidences, in hundredths.
Similarities == {80, 90}

\* interface Assignment (the fields the script reads).  An assignment whose
\* emoji is empty yields no candidate whatever its other fields are, and one
\* whose emoji is an inherited name stops the run, so these two kinds are
\* drawn with one asset and one confidence.  So are an assignment whose
\* labels are text-presentation emoji and one that has no filename property
\* (JSON.parse checks no shape, the property reads as undefined); the empty
\* asset identifier is drawn without secondary label.
Assignment ==
    [filename : Filenames \ {""}, emoji : {<<"U+2795">>}, subEmoji : SubEmojis,
     similarity : Similarities]
    \cup [filename : {""}, emoji : {<<"U+2795">>}, subEmoji : {EmptyLabel},
          similarity : Similarities]
    \cup [filename : {"add"}, emoji : {Gear}, subEmoji : {Pencil}, similarity : {80}]
    \cup [filename : {Undefined}, emoji : {<<"U+2795">>}, subEmoji : {EmptyLabel},
          similarity : {90}]
    \cup [filename : {"add"}, emoji : {EmptyLabel}, subEmoji : {EmptyLabel, <<"U+1F4C4">>},
          similarity : {80}]
    \cup [filename : {"add"}, emoji : {<<"constructor">>}, subEmoji : {EmptyLabel},
          similarity : {80}]

SeqsUpTo(S, n) == UNION {[1..k -> S] : k \in 0..n}

\* What the loop gets from an "assignments" that is a string or a list of
\* numbers: an element none of whose properties is there (an undefined
\* emoji is falsy, as the empty string is).
NoProposal ==
    [filename |-> Undefined, emoji |-> EmptyLabel, subEmoji |-> EmptyLabel, similarity |-> 80]

\* The primary input artifact: unreadable or unparseable; parsed, with an
\* "assignments" property that cannot be iterated (missing, null, a plain
\* object); parsed, with an "assignments" that is no list of proposals but
\* can be iterated; parsed, with a list of assignments.
InputFiles ==
    {[readable |-> FALSE, iterable |-> FALSE, assignments |-> <<>>],
     [readable |-> TRUE, iterable |-> FALSE, assignments |-> <<>>],
     [readable |-> TRUE, iterable |-> TRUE, assignments |-> <<NoProposal>>]}
    \cup {[readable |-> TRUE, iterable |-> TRUE, assignments |-> l] :
              l \in SeqsUpTo(Assignment, MaxAssignments)}

(***************************************************************************)
(* Logging (simple-build-log).                                             *)
(***************************************************************************)
logInfo(log, message) == Append(log, [level |-> "info", message |-> message])

logError(log, message) == Append(log, [level |-> "error", message |-> message])

(***************************************************************************)
(* Candidate collection: the loop over assignments.assignments.            *)
(***************************************************************************)
\* altIndex of a primary mapping (the property is undefined).
NoAltIndex == -1

\* Mutant: the secondary label is not trimmed before it is tested.
MappingsUntrimmed(a) ==
    (IF a.emoji # EmptyLabel
     THEN <<[emoji |-> a.emoji, isPrimary |-> TRUE, altIndex |-> NoAltIndex]>>
     ELSE <<>>)
    \o
    (IF a.emoji # EmptyLabel /\ a.subEmoji # EmptyLabel
     THEN <<[emoji |-> a.emoji \o a.subEmoji, isPrimary |-> TRUE, altIndex |-> NoAltIndex]>>
     ELSE <<>>)

\* Mutant: the alternative-emoji part is not commented out.
RECURSIVE AlternativeMappings(_, _)
AlternativeMappings(alts, i) ==
    IF i > Len(alts) THEN <<>>
    ELSE (IF alts[i] # EmptyLabel /\ Trim(alts[i]) # EmptyLabel
          THEN <<[emoji |-> alts[i], isPrimary |-> FALSE, altIndex |-> i - 1]>>
          ELSE <<>>)
         \o AlternativeMappings(alts, i + 1)

MappingsWithAlternatives(a) ==
    (IF a.emoji # EmptyLabel
     THEN <<[emoji |-> a.emoji, isPrimary |-> TRUE, altIndex |-> NoAltIndex]>>
     ELSE <<>>)
    \o
    (IF a.emoji # EmptyLabel /\ a.subEmoji # EmptyLabel /\ Trim(a.subEmoji) # EmptyLabel
     THEN <<[emoji |-> a.emoji \o a.subEmoji, isPrimary |-> TRUE, altIndex |-> NoAltIndex]>>
     ELSE <<>>)
    \o AlternativeMappings(a.alternativeEmojis, 1)

\* The mappings list built for one assignment.  The alternative-emoji part
\* is commented out in the source, so nothing else is pushed.
Mappings(a) ==
    (IF a.emoji # EmptyLabel
     THEN <<[emoji |-> a.emoji, isPrimary |-> TRUE, altIndex |-> NoAltIndex]>>
     ELSE <<>>)
    \o
    (IF a.emoji # EmptyLabel /\ a.subEmoji # EmptyLabel /\ Trim(a.subEmoji) # EmptyLabel
     THEN <<[emoji |-> a.emoji \o a.subEmoji, isPrimary |-> TRUE, altIndex |-> NoAltIndex]>>
     ELSE <<>>)

ConflictCandidate(a, m) ==
    [filename |-> a.filename, similarity |-> a.similarity,
     isPrimary |-> m.isPrimary, altIndex |-> m.altIndex]

\* Mutant: an asset already in the conflict set of the key is not pushed
\* again.
CollectMappingDedup(st, a, m) ==
    IF st.threw THEN st
    ELSE IF HasOwn(st.conflicts, m.emoji)
    THEN IF \E i \in 1..Len(OwnValue(st.conflicts, m.emoji)) :
               OwnValue(st.conflicts, m.emoji)[i].filename = a.filename
         THEN [st EXCEPT !.totalMappings = @ + 1]
         ELSE [st EXCEPT !.totalMappings = @ + 1,
                         !.conflicts = Assign(@, m.emoji,
                             Append(OwnValue(@, m.emoji), ConflictCandidate(a, m)))]
    ELSE IF m.emoji \in ObjectPrototypeNames
    THEN [st EXCEPT !.totalMappings = @ + 1, !.threw = TRUE]
    ELSE [st EXCEPT !.totalMappings = @ + 1,
                    !.conflicts = Assign(@, m.emoji, <<ConflictCandidate(a, m)>>)]

\* One iteration of "for (const mapping of mappings)".  conflicts[k] of a
\* name inherited from Object.prototype is truthy and has no push: TypeError.
CollectMapping(st, a, m) ==
    IF st.threw THEN st
    ELSE IF HasOwn(st.conflicts, m.emoji)
    THEN [st EXCEPT !.totalMappings = @ + 1,
                    !.conflicts = Assign(@, m.emoji,
                        Append(OwnValue(@, m.emoji), ConflictCandidate(a, m)))]
    ELSE IF m.emoji \in ObjectPrototypeNames
    THEN [st EXCEPT !.totalMappings = @ + 1, !.threw = TRUE]
    ELSE [st EXCEPT !.totalMappings = @ + 1,
                    !.conflicts = Assign(@, m.emoji, <<ConflictCandidate(a, m)>>)]

RECURSIVE CollectMappings(_, _, _, _)
CollectMappings(st, a, ms, i) ==
    IF i > Len(ms) THEN st
    ELSE CollectMappings(CollectMapping(st, a, ms[i]), a, ms, i + 1)

\* One iteration of "for (const assignment of assignments.assignments)".
CollectAssignment(st, a) ==
    IF st.threw THEN st
    ELSE CollectMappings([st EXCEPT !.primaryMappings = @ + Len(Mappings(a))],
                         a, Mappings(a), 1)

RECURSIVE CollectFrom(_, _, _)
CollectFrom(st, list, i) ==
    IF i > Len(list) THEN st
    ELSE CollectFrom(CollectAssignment(st, list[i]), list, i + 1)

CollectAll(list) ==
    CollectFrom([threw |-> FALSE, conflicts |-> <<>>, primaryMappings |-> 0,
                 alternativeMappings |-> 0, totalMappings |-> 0], list, 1)

(***************************************************************************)
(* Conflict resolution: the loop over Object.entries(conflicts).           *)
(***************************************************************************)
IsPrimary(c) == c.isPrimary

IsAlternative(c) == ~c.isPrimary

\* Mutant: ascending instead of descending.
BySimilarityAsc(a, b) == a.similarity - b.similarity

\* (a, b) => b.similarity - a.similarity
BySimilarityDesc(a, b) == b.similarity - a.similarity

AltIndexOr0(c) == IF c.altIndex = NoAltIndex THEN 0 ELSE c.altIndex

\* Mutant: the greater altIndex first.
ByAltIndexDesc(a, b) == AltIndexOr0(b) - AltIndexOr0(a)

\* (a, b) => (a.altIndex || 0) - (b.altIndex || 0)
ByAltIndex(a, b) == AltIndexOr0(a) - AltIndexOr0(b)

\* Rank of an asset identifier under localeCompare; an undefined argument
\* is compared as the string "undefined".
FilenameRank(f) == CASE f = "" -> 0 [] f = "add" -> 1 [] f = "plus" -> 2 [] OTHER -> 3

\* Rank of a symbol under localeCompare: whitespace, symbols, letters.
SymbolRank(c) ==
    CASE c = " " -> 0 [] c = "U+2699" -> 1 [] c = "U+270F" -> 2 [] c = "U+2795" -> 3
      [] c = "U+1F4C4" -> 4 [] OTHER -> 5

Sign(n) == IF n < 0 THEN -1 ELSE IF n > 0 THEN 1 ELSE 0

\* a.localeCompare(b) on labels
RECURSIVE localeCompare(_, _)
localeCompare(a, b) ==
    IF a = <<>> /\ b = <<>> THEN 0
    ELSE IF a = <<>> THEN -1
    ELSE IF b = <<>> THEN 1
    ELSE IF SymbolRank(Head(a)) # SymbolRank(Head(b))
         THEN Sign(SymbolRank(Head(a)) - SymbolRank(Head(b)))
         ELSE localeCompare(Tail(a), Tail(b))

\* Number of UTF-16 code units of a symbol.
UnitLength(c) ==
    CASE c = "U+1F4C4" -> 2 [] c = "constructor" -> 11 [] OTHER -> 1

\* String.prototype.length
RECURSIVE Length(_)
Length(s) == IF s = <<>> THEN 0 ELSE UnitLength(Head(s)) + Length(Tail(s))

\* Unicode properties of the symbols, as the emoji regular expression uses them.
EmojiModifierBase == {}

EmojiModifier == {}

EmojiPresentation == {"U+2795", "U+1F4C4"}

EmojiProperty == {"U+2795", "U+1F4C4", "U+2699", "U+270F"}

VariationSelector == "U+FE0F"

\* a.match(emojiRegex)?.length || 0
RECURSIVE EmojiMatchCount(_)
EmojiMatchCount(s) ==
    IF s = <<>> THEN 0
    ELSE IF Head(s) \in EmojiModifierBase
         THEN IF Len(s) > 1 /\ s[2] \in EmojiModifier
              THEN 1 + EmojiMatchCount(Tail(Tail(s)))
              ELSE 1 + EmojiMatchCount(Tail(s))
    ELSE IF Head(s) \in EmojiPresentation THEN 1 + EmojiMatchCount(Tail(s))
    ELSE IF Head(s) \in EmojiProperty /\ Len(s) > 1 /\ s[2] = VariationSelector
         THEN 1 + EmojiMatchCount(Tail(Tail(s)))
    ELSE EmojiMatchCount(Tail(s))

\* ([, iconNameA], [, iconNameB]) => iconNameA.localeCompare(iconNameB)
ByIconName(a, b) == Sign(FilenameRank(a.val) - FilenameRank(b.val))

ByEmojiKey(a, b) ==
    IF EmojiMatchCount(a.key) # EmojiMatchCount(b.key)
    THEN EmojiMatchCount(a.key) - EmojiMatchCount(b.key)
    ELSE localeCompare(a.key, b.key)

ByKeyLength(a, b) ==
    IF Length(a.key) # Length(b.key)
    THEN Length(a.key) - Length(b.key)
    ELSE localeCompare(a.key, b.key)

\* The comparator functions the script passes to Array.prototype.sort.
Compare(by, a, b) ==
    CASE by = "similarity" -> BySimilarityDesc(a, b)
      [] by = "altIndex" -> ByAltIndex(a, b)
      [] by = "iconName" -> ByIconName(a, b)
      [] by = "emojiKey" -> ByEmojiKey(a, b)
      [] by = "keyLength" -> ByKeyLength(a, b)

\* Array.prototype.sort is stable: an element goes after every element the
\* comparator does not put after it.
RECURSIVE InsertSorted(_, _, _)
InsertSorted(by, sorted, x) ==
    IF sorted = <<>> THEN <<x>>
    ELSE IF Compare(by, sorted[Len(sorted)], x) <= 0 THEN Append(sorted, x)
    ELSE Append(InsertSorted(by, SubSeq(sorted, 1, Len(sorted) - 1), x), sorted[Len(sorted)])

RECURSIVE SortFrom(_, _, _, _)
SortFrom(by, s, i, acc) ==
    IF i > Len(s) THEN acc
    ELSE SortFrom(by, s, i + 1, InsertSorted(by, acc, s[i]))

StableSort(by, s) == SortFrom(by, s, 1, <<>>)

primaryCandidates(candidates) == SelectSeq(candidates, IsPrimary)

alternativeCandidates(candidates) == SelectSeq(candidates, IsAlternative)

sortedPrimaryCandidates(candidates) ==
    StableSort("similarity", primaryCandidates(candidates))

\* Mutant: the candidate of greatest similarity wins, primary or not.
WinnerBySimilarity(candidates) ==
    IF Len(candidates) > 1
    THEN StableSort("similarity", candidates)[1]
    ELSE candidates[1]

\* The winner chosen for a key.
Winner(candidates) ==
    IF Len(candidates) > 1
    THEN IF Len(primaryCandidates(candidates)) > 0
         THEN IF Len(primaryCandidates(candidates)) > 1
              THEN sortedPrimaryCandidates(candidates)[1]
              ELSE primaryCandidates(candidates)[1]
         ELSE StableSort("altIndex", alternativeCandidates(candidates))[1]
    ELSE candidates[1]

\* Mutant: every conflict is recorded as a tie.
shouldAddToTiesAnyConflict(candidates) == Len(candidates) > 1

shouldAddToTies(candidates) ==
    /\ Len(candidates) > 1
    /\ Len(primaryCandidates(candidates)) > 1

\* Mutant: the tie record is taken before the sort.
TieRecordUnsorted(candidates) ==
    [i \in 1..Len(primaryCandidates(candidates)) |-> primaryCandidates(candidates)[i].filename]

\* primaryCandidates.map(c => c.filename), after the in-place sort
TieRecord(candidates) ==
    [i \in 1..Len(sortedPrimaryCandidates(candidates)) |->
        sortedPrimaryCandidates(candidates)[i].filename]

ResolveLog(log, candidates) ==
    IF Len(candidates) > 1
    THEN IF Len(primaryCandidates(candidates)) > 0
         THEN IF Len(primaryCandidates(candidates)) > 1
              THEN logInfo(log, "Primary conflict resolved")
              ELSE IF Len(alternativeCandidates(candidates)) > 0
                   THEN logInfo(log, "Primary beats alternative")
                   ELSE log
         ELSE logInfo(log, "Alternative conflict resolved")
    ELSE log

\* Mutant: a key without conflict is not entered into the mapping.
ResolveEntryConflictsOnly(st, emojiKey, candidates) ==
    [emojiToIcon |-> IF Len(candidates) > 1
                     THEN Assign(st.emojiToIcon, emojiKey, Winner(candidates).filename)
                     ELSE st.emojiToIcon,
     emojiTies |-> IF shouldAddToTies(candidates)
                   THEN Assign(st.emojiTies, emojiKey, TieRecord(candidates))
                   ELSE st.emojiTies,
     log |-> ResolveLog(st.log, candidates)]

\* Mutant: a key without conflict gets the winner of the previous key.
ResolveEntryStaleWinner(st, emojiKey, candidates) ==
    [emojiToIcon |-> Assign(st.emojiToIcon, emojiKey,
                        IF Len(candidates) = 1 /\ st.emojiToIcon # <<>>
                        THEN st.emojiToIcon[Len(st.emojiToIcon)].val
                        ELSE Winner(candidates).filename),
     emojiTies |-> IF shouldAddToTies(candidates)
                   THEN Assign(st.emojiTies, emojiKey, TieRecord(candidates))
                   ELSE st.emojiTies,
     log |-> ResolveLog(st.log, candidates)]

\* One iteration of the resolution loop.
ResolveEntry(st, emojiKey, candidates) ==
    [emojiToIcon |-> Assign(st.emojiToIcon, emojiKey, Winner(candidates).filename),
     emojiTies |-> IF shouldAddToTies(candidates)
                   THEN Assign(st.emojiTies, emojiKey, TieRecord(candidates))
                   ELSE st.emojiTies,
     log |-> ResolveLog(st.log, candidates)]

RECURSIVE ResolveFrom(_, _, _)
ResolveFrom(st, cf, i) ==
    IF i > Len(cf) THEN st
    ELSE ResolveFrom(ResolveEntry(st, cf[i].key, cf[i].val), cf, i + 1)

ResolveAll(cf, log) ==
    ResolveFrom([emojiToIcon |-> <<>>, emojiTies |-> <<>>, log |-> log], cf, 1)

(***************************************************************************)
(* Manual tie-breaking overrides.                                          *)
(***************************************************************************)
\* Values an entry of "ties" can have: something that is not an array, an
\* empty array, an array of asset identifiers.
OverrideValues ==
    {[isArray |-> FALSE, items |-> <<>>],
     [isArray |-> TRUE, items |-> <<>>],
     [isArray |-> TRUE, items |-> <<"plus", "add">>]}

OverrideKeys == {<<"U+2795">>, <<"constructor">>}

OverrideEntry == [key : OverrideKeys, val : OverrideValues]

\* JSON.parse keeps one entry per key.
OverrideMaps ==
    {m \in SeqsUpTo(OverrideEntry, MaxOverrideEntries) :
        \A i, j \in 1..Len(m) : i # j => m[i].key # m[j].key}

\* emoji-ties-manually-broken.json: absent (ENOENT); unreadable or not JSON;
\* parsed with "ties" missing or not an object; parsed with "ties" an object.
OverrideFiles ==
    {[kind |-> k, ties |-> <<>>] : k \in {"absent", "unreadable", "invalid"}}
    \cup {[kind |-> "object", ties |-> m] : m \in OverrideMaps}

NotRead == [kind |-> "notread", ties |-> <<>>]

\* Mutant: an override also moves the manual winner to the head of the
\* key's tie record.
ApplyOverrideEntryReorderTies(st, emoji, tieArray) ==
    IF tieArray.isArray /\ Len(tieArray.items) > 0
    THEN LET manualWinner == tieArray.items[1]
             current == Lookup(st.emojiToIcon, emoji)
             IsLoser(f) == f # manualWinner
         IN  IF Truthy(current) /\ current # manualWinner
             THEN [st EXCEPT !.emojiToIcon = Assign(@, emoji, manualWinner),
                             !.emojiTies = IF HasOwn(@, emoji)
                                           THEN Assign(@, emoji, <<manualWinner>>
                                                    \o SelectSeq(OwnValue(@, emoji), IsLoser))
                                           ELSE @,
                             !.manualOverrides = @ + 1,
                             !.log = logInfo(@, "Manual override")]
             ELSE st
    ELSE st

\* Mutant: the winner is replaced and counted without comparing it with the
\* current one.
ApplyOverrideEntryAlways(st, emoji, tieArray) ==
    IF tieArray.isArray /\ Len(tieArray.items) > 0
    THEN IF Truthy(Lookup(st.emojiToIcon, emoji))
         THEN [st EXCEPT !.emojiToIcon = Assign(@, emoji, tieArray.items[1]),
                         !.manualOverrides = @ + 1,
                         !.log = logInfo(@, "Manual override")]
         ELSE st
    ELSE st

\* One iteration of "for (const [emoji, tieArray] of Object.entries(...))".
\* st holds what the loop has in scope: emojiToIcon, emojiTies,
\* manualOverrides and the log.
ApplyOverrideEntry(st, emoji, tieArray) ==
    IF tieArray.isArray /\ Len(tieArray.items) > 0
    THEN LET manualWinner == tieArray.items[1]
             current == Lookup(st.emojiToIcon, emoji)
         IN  IF Truthy(current) /\ current # manualWinner
             THEN [st EXCEPT !.emojiToIcon = Assign(@, emoji, manualWinner),
                             !.manualOverrides = @ + 1,
                             !.log = logInfo(@, "Manual override")]
             ELSE st
    ELSE st

RECURSIVE ApplyOverridesFrom(_, _, _)
ApplyOverridesFrom(st, ties, i) ==
    IF i > Len(ties) THEN st
    ELSE ApplyOverridesFrom(ApplyOverrideEntry(st, ties[i].key, ties[i].val), ties, i + 1)

\* An entry the loop applies: an array with at least one element.
IsNonEmptyArray(entry) == entry.val.isArray /\ Len(entry.val.items) > 0

\* Mutant: one entry that is not a non-empty array makes the whole file
\* invalid, and nothing is applied.
ApplyManualOverridesAllOrNothing(mapping, ties, file, log) ==
    LET st0 == [emojiToIcon |-> mapping, emojiTies |-> ties, manualOverrides |-> 0,
                log |-> log]
    IN  CASE file.kind = "object" /\ \A i \in 1..Len(file.ties) : IsNonEmptyArray(file.ties[i]) ->
                LET st1 == ApplyOverridesFrom(
                               [st0 EXCEPT !.log = logInfo(@, "Found manual tie-breaking file, applying overrides...")],
                               file.ties, 1)
                IN  [st1 EXCEPT !.log = logInfo(@, "Applied manual tie-breaking overrides")]
          [] file.kind \in {"invalid", "object"} ->
                [st0 EXCEPT !.log = logInfo(@, "Manual tie-breaking file found but has invalid format")]
          [] file.kind = "absent" ->
                [st0 EXCEPT !.log = logInfo(@, "No manual tie-breaking file found")]
          [] OTHER ->
                [st0 EXCEPT !.log = logError(@, "Error reading manual tie-breaking file")]

\* Mutant: the catch does not tell ENOENT from the other errors.
ApplyManualOverridesNoEnoent(mapping, ties, file, log) ==
    LET st0 == [emojiToIcon |-> mapping, emojiTies |-> ties, manualOverrides |-> 0,
                log |-> log]
    IN  CASE file.kind = "object" ->
                LET st1 == ApplyOverridesFrom(
                               [st0 EXCEPT !.log = logInfo(@, "Found manual tie-breaking file, applying overrides...")],
                               file.ties, 1)
                IN  [st1 EXCEPT !.log = logInfo(@, "Applied manual tie-breaking overrides")]
          [] file.kind = "invalid" ->
                [st0 EXCEPT !.log = logInfo(@, "Manual tie-breaking file found but has invalid format")]
          [] OTHER ->
                [st0 EXCEPT !.log = logError(@, "Error reading manual tie-breaking file")]

\* The try block reading and applying the override file, and its catch.
ApplyManualOverrides(mapping, ties, file, log) ==
    LET st0 == [emojiToIcon |-> mapping, emojiTies |-> ties, manualOverrides |-> 0,
                log |-> log]
    IN  CASE file.kind = "object" ->
                LET st1 == ApplyOverridesFrom(
                               [st0 EXCEPT !.log = logInfo(@, "Found manual tie-breaking file, applying overrides...")],
                               file.ties, 1)
                IN  [st1 EXCEPT !.log = logInfo(@, "Applied manual tie-breaking overrides")]
          [] file.kind = "invalid" ->
                [st0 EXCEPT !.log = logInfo(@, "Manual tie-breaking file found but has invalid format")]
          [] file.kind = "absent" ->
                [st0 EXCEPT !.log = logInfo(@, "No manual tie-breaking file found")]
          [] OTHER ->
                [st0 EXCEPT !.log = logError(@, "Error reading manual tie-breaking file")]

(***************************************************************************)
(* The three sorted views.                                                 *)
(***************************************************************************)
\* Whether the comparator of the sort by icon name throws: it calls
\* iconNameA.localeCompare, a TypeError when iconNameA is undefined.  Which
\* element of a pair the engine passes first is its own choice: with two
\* undefined values among the entries some call has one first, with one
\* undefined value among several entries both outcomes are possible, and a
\* list of one entry is never compared.
IconNameSortThrows(mapping) ==
    LET undefinedValues == {i \in 1..Len(mapping) : mapping[i].val = Undefined}
    IN  IF Len(mapping) < 2 \/ undefinedValues = {} THEN {FALSE}
        ELSE IF Cardinality(undefinedValues) > 1 THEN {TRUE}
        ELSE {TRUE, FALSE}

sortedEmojiToIcon(mapping) == StableSort("iconName", mapping)

sortedEmojiToIconByEmoji(mapping) == StableSort("emojiKey", mapping)

sortedEmojiTies(ties) == StableSort("keyLength", ties)

\* new Date().toISOString(): the date of the run.
emojiToIconData ==
    [generated |-> run, totalMappings |-> Len(emojiToIcon),
     primaryMappings |-> primaryMappings, alternativeMappings |-> alternativeMappings,
     manualOverrides |-> manualOverrides, note |-> "Sorted alphabetically by icon name",
     entries |-> sortedEmojiToIcon(emojiToIcon)]

emojiToIconByEmojiData ==
    [generated |-> run, totalMappings |-> Len(emojiToIcon),
     primaryMappings |-> primaryMappings, alternativeMappings |-> alternativeMappings,
     manualOverrides |-> manualOverrides, note |-> "Sorted alphabetically by emoji key",
     entries |-> sortedEmojiToIconByEmoji(emojiToIcon)]

\* Mutant: the tie records already in emoji-ties.json are kept and the new
\* ones are added after them.
emojiTiesDataMerged ==
    [generated |-> run, totalTies |-> Len(emojiTies),
     note |-> "Only contains primary emoji conflicts",
     entries |-> (IF previous.ran THEN previous.files["emoji-ties.json"].data.entries ELSE <<>>)
                 \o sortedEmojiTies(emojiTies)]

emojiTiesData ==
    [generated |-> run, totalTies |-> Len(emojiTies),
     note |-> "Only contains primary emoji conflicts",
     entries |-> sortedEmojiTies(emojiTies)]

(***************************************************************************)
(* JSON.stringify: what the written text holds, as JSON.parse reads it.    *)
(***************************************************************************)
\* null, as JSON.stringify writes an undefined element of an array.
JsonNull == "<null>"

HasValue(entry) == entry.val # Undefined

\* A property whose value is undefined is left out of an object.
JsonObject(obj) == SelectSeq(obj, HasValue)

JsonArray(items) ==
    [i \in 1..Len(items) |-> IF items[i] = Undefined THEN JsonNull ELSE items[i]]

JsonTies(ties) ==
    [i \in 1..Len(ties) |-> [key |-> ties[i].key, val |-> JsonArray(ties[i].val)]]

\* JSON.stringify(emojiToIconData) and JSON.stringify(emojiToIconByEmojiData)
StringifyMappingData(data) == [data EXCEPT !.entries = JsonObject(@)]

\* JSON.stringify(emojiTiesData)
StringifyTiesData(data) == [data EXCEPT !.entries = JsonTies(@)]

(***************************************************************************)
(* The run: createEmojiToIconMapping and main.                             *)
(***************************************************************************)
OutputNames == {"emoji-to-icon.json", "emoji-to-icon-by-emoji.json", "emoji-ties.json"}

\* An output file this run has not written.
NotWritten == [written |-> FALSE]

Written(data) == [written |-> TRUE, data |-> data]

\* No earlier run is kept for comparison.
NoRun == [ran |-> FALSE]

\* The catch of createEmojiToIconMapping rethrows into the catch of main.
Thrown(log) ==
    logError(logError(log, "Failed to create emoji-to-icon mapping"), "Script failed")

Init ==
    /\ GroupingIdle
    /\ OrchestrationIdle
    /\ pc = "start"
    /\ assignments = <<>>
    /\ conflicts = <<>>
    /\ primaryMappings = 0
    /\ alternativeMappings = 0
    /\ totalMappings = 0
    /\ emojiToIcon = <<>>
    /\ emojiTies = <<>>
    /\ manualTies = NotRead
    /\ manualOverrides = 0
    /\ files = [n \in OutputNames |-> NotWritten]
    /\ logMessages = <<>>
    /\ logFile = <<>>
    /\ exitCode = -1
    /\ run = 1
    /\ previous = NoRun

\* readFile and JSON.parse of emoji-assignments.json, one of the files
\* "inputs".  When assignments.assignments cannot be iterated the for-of
\* statement throws a TypeError as soon as the file is parsed.
ReadInputOf(inputs) ==
    /\ pc = "start"
    /\ \E f \in inputs :
        IF f.readable /\ f.iterable
        THEN /\ assignments' = f.assignments
             /\ logMessages' = logInfo(logInfo(logMessages,
                    "Reading emoji-assignments.json file..."), "Loaded assignments")
             /\ pc' = "collect"
        ELSE IF f.readable
        THEN /\ assignments' = assignments
             /\ logMessages' = Thrown(logInfo(logInfo(logInfo(logMessages,
                    "Reading emoji-assignments.json file..."), "Loaded assignments"),
                    "Processing emoji assignments..."))
             /\ pc' = "failed"
        ELSE /\ assignments' = assignments
             /\ logMessages' = Thrown(logInfo(logMessages,
                    "Reading emoji-assignments.json file..."))
             /\ pc' = "failed"
    /\ UNCHANGED <<groupingVars, orchestrationVars>>
    /\ UNCHANGED <<conflicts, primaryMappings, alternativeMappings, totalMappings,
                   emojiToIcon, emojiTies, manualTies, manualOverrides, files,
                   logFile, exitCode, run, previous>>

ReadInput == ReadInputOf(InputFiles)

\* The collection loop and the three lines logged after it.
Collect ==
    /\ pc = "collect"
    /\ LET st == CollectAll(assignments)
           log == logInfo(logMessages, "Processing emoji assignments...")
       IN  /\ conflicts' = st.conflicts
           /\ primaryMappings' = st.primaryMappings
           /\ alternativeMappings' = st.alternativeMappings
           /\ totalMappings' = st.totalMappings
           /\ IF st.threw
              THEN /\ logMessages' = Thrown(log)
                   /\ pc' = "failed"
              ELSE /\ logMessages' = logInfo(logInfo(logInfo(log,
                          "Created emoji mappings"), "  - Primary mappings"),
                          "  - Alternative emoji mappings")
                   /\ pc' = "resolve"
    /\ UNCHANGED <<groupingVars, orchestrationVars>>
    /\ UNCHANGED <<assignments, emojiToIcon, emojiTies, manualTies, manualOverrides,
                   files, logFile, exitCode, run, previous>>

\* The resolution loop and the lines logged around it.
Resolve ==
    /\ pc = "resolve"
    /\ LET st == ResolveAll(conflicts,
                     logInfo(logMessages, "Resolving conflicts and creating final mappings..."))
       IN  /\ emojiToIcon' = st.emojiToIcon
           /\ emojiTies' = st.emojiTies
           /\ logMessages' = logInfo(st.log, "Resolved conflicts, created tie records")
    /\ pc' = "override"
    /\ UNCHANGED <<groupingVars, orchestrationVars>>
    /\ UNCHANGED <<assignments, conflicts, primaryMappings, alternativeMappings,
                   totalMappings, manualTies, manualOverrides, files, logFile, exitCode,
                   run, previous>>

\* Reading emoji-ties-manually-broken.json, one of the files "overrides",
\* applying it, then sorting the three views and building the three data
\* objects, up to the first await writeFile.
OverrideOf(overrides) ==
    /\ pc = "override"
    /\ \E f \in overrides :
        LET st == ApplyManualOverrides(emojiToIcon, emojiTies, f,
                      logInfo(logMessages, "Checking for manual tie-breaking overrides..."))
        IN  /\ manualTies' = f
            /\ emojiToIcon' = st.emojiToIcon
            /\ emojiTies' = st.emojiTies
            /\ manualOverrides' = st.manualOverrides
            /\ \E threw \in IconNameSortThrows(st.emojiToIcon) :
                IF threw
                THEN /\ logMessages' = Thrown(logInfo(st.log, "Writing output files..."))
                     /\ pc' = "failed"
                ELSE /\ logMessages' = logInfo(st.log, "Writing output files...")
                     /\ pc' = "writeEmojiToIcon"
    /\ UNCHANGED <<groupingVars, orchestrationVars>>
    /\ UNCHANGED <<assignments, conflicts, primaryMappings, alternativeMappings,
                   totalMappings, files, logFile, exitCode, run, previous>>

Override == OverrideOf(OverrideFiles)

\* Mutant: a write that fails is ignored and the function goes on.
WriteFileSwallowed(at, name, json, next, logged) ==
    /\ pc = at
    /\ \E ok \in BOOLEAN :
        /\ files' = IF ok THEN [files EXCEPT ![name] = Written(json)] ELSE files
        /\ logMessages' = logMessages \o logged
        /\ pc' = next
    /\ UNCHANGED <<groupingVars, orchestrationVars>>
    /\ UNCHANGED <<assignments, conflicts, primaryMappings, alternativeMappings,
                   totalMappings, emojiToIcon, emojiTies, manualTies, manualOverrides,
                   logFile, exitCode, run, previous>>

\* await writeFile(path, JSON.stringify(data)): written, or the write throws.
\* "logged" is what the function logs before its next await.
WriteFile(at, name, json, next, logged) ==
    /\ pc = at
    /\ \E ok \in BOOLEAN :
        IF ok
        THEN /\ files' = [files EXCEPT ![name] = Written(json)]
             /\ logMessages' = logMessages \o logged
             /\ pc' = next
        ELSE /\ files' = files
             /\ logMessages' = Thrown(logMessages)
             /\ pc' = "failed"
    /\ UNCHANGED <<groupingVars, orchestrationVars>>
    /\ UNCHANGED <<assignments, conflicts, primaryMappings, alternativeMappings,
                   totalMappings, emojiToIcon, emojiTies, manualTies, manualOverrides,
                   logFile, exitCode, run, previous>>

WriteEmojiToIcon ==
    WriteFile("writeEmojiToIcon", "emoji-to-icon.json",
              StringifyMappingData(emojiToIconData), "writeByEmoji", <<>>)

WriteEmojiToIconByEmoji ==
    WriteFile("writeByEmoji", "emoji-to-icon-by-emoji.json",
              StringifyMappingData(emojiToIconByEmojiData), "writeTies", <<>>)

\* The third write; once it is done the summary is logged and
\* createEmojiToIconMapping returns.
WriteEmojiTies ==
    WriteFile("writeTies", "emoji-ties.json", StringifyTiesData(emojiTiesData), "succeeded",
              <<[level |-> "info", message |-> "output files created"],
                [level |-> "info", message |-> "=== SUMMARY ==="]>>)

\* Mutant: saveLogToFile does not catch the failure of its write, which
\* takes main from its try block into its catch.
SaveLogAndExitUncaught ==
    /\ pc \in {"succeeded", "failed"}
    /\ \E ok \in BOOLEAN :
        /\ logFile' = IF ok THEN logMessages ELSE logFile
        /\ exitCode' = IF pc = "succeeded" /\ ok THEN 0 ELSE 1
    /\ pc' = "exited"
    /\ UNCHANGED <<groupingVars, orchestrationVars>>
    /\ UNCHANGED <<assignments, conflicts, primaryMappings, alternativeMappings,
                   totalMappings, emojiToIcon, emojiTies, manualTies, manualOverrides,
                   files, logMessages, run, previous>>

\* await saveLogToFile("emoji-mapping"), then process.exit: a failure to
\* write the log is caught inside saveLogToFile.
SaveLogAndExit ==
    /\ pc \in {"succeeded", "failed"}
    /\ \E ok \in BOOLEAN : logFile' = IF ok THEN logMessages ELSE logFile
    /\ exitCode' = IF pc = "succeeded" THEN 0 ELSE 1
    /\ pc' = "exited"
    /\ UNCHANGED <<groupingVars, orchestrationVars>>
    /\ UNCHANGED <<assignments, conflicts, primaryMappings, alternativeMappings,
                   totalMappings, emojiToIcon, emojiTies, manualTies, manualOverrides,
                   files, logMessages, run, previous>>

Next ==
    \/ ReadInput
    \/ Collect
    \/ Resolve
    \/ Override
    \/ WriteEmojiToIcon
    \/ WriteEmojiToIconByEmoji
    \/ WriteEmojiTies
    \/ SaveLogAndExit

Spec == Init /\ [][Next]_vars

(***************************************************************************)
(* The script run again: same primary input, no override file, the output  *)
(* files of the run before still in place.                                 *)
(***************************************************************************)
MaxRuns == 2

\* The input file of the run before, which nobody has modified.
SameInput == [readable |-> TRUE, iterable |-> TRUE, assignments |-> previous.input]

NoOverrideFile == [kind |-> "absent", ties |-> <<>>]

\* A new process at a later date, after a run that has exited with status
\* 0.  The files stay; everything the script holds in memory starts anew.
Rerun ==
    /\ pc = "exited"
    /\ exitCode = 0
    /\ run < MaxRuns
    /\ previous' = [ran |-> TRUE, input |-> assignments, files |-> files]
    /\ run' = run + 1
    /\ pc' = "start"
    /\ assignments' = <<>>
    /\ conflicts' = <<>>
    /\ primaryMappings' = 0
    /\ alternativeMappings' = 0
    /\ totalMappings' = 0
    /\ emojiToIcon' = <<>>
    /\ emojiTies' = <<>>
    /\ manualTies' = NotRead
    /\ manualOverrides' = 0
    /\ logMessages' = <<>>
    /\ exitCode' = -1
    /\ UNCHANGED <<groupingVars, orchestrationVars>>
    /\ UNCHANGED <<files, logFile>>

ReadSameInput == ReadInputOf(IF previous.ran THEN {SameInput} ELSE InputFiles)

OverrideAbsent == OverrideOf({NoOverrideFile})

NextRerun ==
    \/ ReadSameInput
    \/ Collect
    \/ Resolve
    \/ OverrideAbsent
    \/ WriteEmojiToIcon
    \/ WriteEmojiToIconByEmoji
    \/ WriteEmojiTies
    \/ SaveLogAndExit
    \/ Rerun

SpecRerun == Init /\ [][NextRerun]_vars

(***************************************************************************)
(* The resolution loop on its own: conflict sets drawn from a bounded set, *)
(* non-primary candidates included (the loop handles them although the     *)
(* collection loop as shipped produces none).                              *)
(***************************************************************************)
MaxCandidates == 3

AltIndexes == {0, 1}

Candidate ==
    [filename : {"add", "plus"}, similarity : Similarities, isPrimary : {TRUE},
     altIndex : {NoAltIndex}]
    \cup [filename : {"add", "plus"}, similarity : Similarities, isPrimary : {FALSE},
          altIndex : AltIndexes]

CandidateLists == SeqsUpTo(Candidate, MaxCandidates) \ {<<>>}

InitResolver ==
    /\ GroupingIdle
    /\ OrchestrationIdle
    /\ pc = "resolve"
    /\ assignments = <<>>
    /\ \E cs \in CandidateLists : conflicts = <<[key |-> <<"U+2795">>, val |-> cs]>>
    /\ primaryMappings = 0
    /\ alternativeMappings = 0
    /\ totalMappings = 0
    /\ emojiToIcon = <<>>
    /\ emojiTies = <<>>
    /\ manualTies = NotRead
    /\ manualOverrides = 0
    /\ files = [n \in OutputNames |-> NotWritten]
    /\ logMessages = <<>>
    /\ logFile = <<>>
    /\ exitCode = -1
    /\ run = 1
    /\ previous = NoRun

NextResolver == Resolve

SpecResolver == InitResolver /\ [][NextResolver]_vars

(***************************************************************************)
(* Properties of the conflict resolver.                                    *)
(***************************************************************************)
\* The resolver has run and the override file has not been read yet.
Resolved == pc = "override"

PrimaryIndexes(cs) == {i \in 1..Len(cs) : cs[i].isPrimary}

\* i is the primary candidate of greatest similarity, the earliest of them.
EarliestBestPrimary(cs, i) ==
    /\ i \in PrimaryIndexes(cs)
    /\ \A j \in PrimaryIndexes(cs) :
        \/ cs[j].similarity < cs[i].similarity
        \/ cs[j].similarity = cs[i].similarity /\ i <= j

\* C1: for every key with two or more primary candidates the winner is the
\* primary candidate of maximal similarity, and among the primaries of that
\* similarity the one inserted first.
C1_PrimaryWinner ==
    Resolved =>
        \A e \in 1..Len(conflicts) :
            Cardinality(PrimaryIndexes(conflicts[e].val)) >= 2 =>
                \E i \in 1..Len(conflicts[e].val) :
                    /\ EarliestBestPrimary(conflicts[e].val, i)
                    /\ HasOwn(emojiToIcon, conflicts[e].key)
                    /\ OwnValue(emojiToIcon, conflicts[e].key) = conflicts[e].val[i].filename

\* Three primaries: the second and third share the greatest similarity and
\* the second has won.
C1_Witness ==
    /\ Resolved
    /\ \E e \in 1..Len(conflicts) :
        LET cs == conflicts[e].val
        IN  /\ Len(cs) = 3
            /\ PrimaryIndexes(cs) = {1, 2, 3}
            /\ cs[1].similarity < cs[2].similarity
            /\ cs[2].similarity = cs[3].similarity
            /\ cs[2].filename # cs[3].filename
            /\ cs[2].filename # cs[1].filename
            /\ OwnValue(emojiToIcon, conflicts[e].key) = cs[2].filename

\* C2: after the resolver the mapping has exactly one entry for every key
\* that received a candidate, and no other key.
C2_Uniqueness ==
    Resolved =>
        /\ KeySet(emojiToIcon) = {conflicts[e].key : e \in {e \in 1..Len(conflicts) : Len(conflicts[e].val) >= 1}}
        /\ \A i, j \in 1..Len(emojiToIcon) : emojiToIcon[i].key = emojiToIcon[j].key => i = j

\* Two keys, one of them claimed by two candidates.
C2_Witness ==
    /\ Resolved
    /\ Len(emojiToIcon) = 2
    /\ \E e \in 1..Len(conflicts) : Len(conflicts[e].val) = 2
    /\ \E e \in 1..Len(conflicts) : Len(conflicts[e].val) = 1

\* C3: right after the resolver every winner is the asset of one of the
\* candidates of its key.
C3_Coverage ==
    Resolved =>
        \A i \in 1..Len(emojiToIcon) :
            /\ HasOwn(conflicts, emojiToIcon[i].key)
            /\ \E n \in 1..Len(OwnValue(conflicts, emojiToIcon[i].key)) :
                OwnValue(conflicts, emojiToIcon[i].key)[n].filename = emojiToIcon[i].val

\* Two keys with different winners, the second key claimed by one asset only.
C3_Witness ==
    /\ Resolved
    /\ Len(emojiToIcon) = 2
    /\ emojiToIcon[1].val # emojiToIcon[2].val
    /\ Len(OwnValue(conflicts, emojiToIcon[1].key)) = 2
    /\ Len(OwnValue(conflicts, emojiToIcon[2].key)) = 1

\* C4: a key has a tie record exactly when its conflict set holds two or
\* more primary candidates.
C4_TieIffPrimaries ==
    Resolved =>
        /\ KeySet(emojiTies) \subseteq KeySet(conflicts)
        /\ \A e \in 1..Len(conflicts) :
            HasOwn(emojiTies, conflicts[e].key)
                <=> Cardinality(PrimaryIndexes(conflicts[e].val)) >= 2

\* One primary and two non-primary candidates, and no tie record.
C4_Witness ==
    /\ Resolved
    /\ \E e \in 1..Len(conflicts) :
        /\ Len(conflicts[e].val) = 3
        /\ Cardinality(PrimaryIndexes(conflicts[e].val)) = 1
        /\ ~HasOwn(emojiTies, conflicts[e].key)
        /\ HasOwn(emojiToIcon, conflicts[e].key)

\* p lists the primary candidates of cs by similarity descending, insertion
\* order among equals.
SortedPrimaries(cs, p) ==
    /\ \A n, m \in DOMAIN p : n # m => p[n] # p[m]
    /\ \A n, m \in DOMAIN p : n < m =>
        \/ cs[p[n]].similarity > cs[p[m]].similarity
        \/ cs[p[n]].similarity = cs[p[m]].similarity /\ p[n] < p[m]

\* C5: every tie record lists the assets of all primary candidates of its
\* key, and only those, by similarity descending and insertion order among
\* equals; its first element is the mapping's value before any override.
C5_TieConsistency ==
    Resolved =>
        \A t \in 1..Len(emojiTies) :
            /\ HasOwn(conflicts, emojiTies[t].key)
            /\ LET cs == OwnValue(conflicts, emojiTies[t].key)
                   tie == emojiTies[t].val
               IN  /\ Len(tie) = Cardinality(PrimaryIndexes(cs))
                   /\ \E p \in [1..Len(tie) -> PrimaryIndexes(cs)] :
                        /\ SortedPrimaries(cs, p)
                        /\ \A n \in 1..Len(tie) : tie[n] = cs[p[n]].filename
                   /\ tie[1] = OwnValue(emojiToIcon, emojiTies[t].key)

\* A tie record whose order differs from the insertion order.
C5_Witness ==
    /\ Resolved
    /\ \E t \in 1..Len(emojiTies) :
        LET cs == OwnValue(conflicts, emojiTies[t].key)
        IN  /\ Len(cs) = 2
            /\ cs[1].similarity < cs[2].similarity
            /\ cs[1].filename # cs[2].filename
            /\ emojiTies[t].val = <<cs[2].filename, cs[1].filename>>

(***************************************************************************)
(* Properties of the manual override applier.                              *)
(***************************************************************************)
\* The override file has been read and applied.
Overridden == manualTies.kind # "notread"

AllWritten == \A n \in OutputNames : files[n].written

\* Keys of the entries of a written output file.
FileKeys(n) == IF files[n].written THEN KeySet(files[n].data.entries) ELSE {}

\* C6: for every entry key -> [W, ...] of a well-formed override map whose
\* key exists in the resolved mapping, the final value of key is W.
C6_OverridePrecedence ==
    Overridden /\ manualTies.kind = "object" =>
        \A i \in 1..Len(manualTies.ties) :
            IsNonEmptyArray(manualTies.ties[i]) /\ HasOwn(conflicts, manualTies.ties[i].key) =>
                /\ HasOwn(emojiToIcon, manualTies.ties[i].key)
                /\ OwnValue(emojiToIcon, manualTies.ties[i].key) = manualTies.ties[i].val.items[1]

\* C7: the override applier never changes the set of keys of the mapping
\* (the keys the resolver made are those of conflicts); an entry whose key
\* is absent from the mapping is not counted and its key is in no output.
C7_NonCreation ==
    Overridden =>
        /\ KeySet(emojiToIcon) = KeySet(conflicts)
        /\ \A n \in OutputNames : FileKeys(n) \subseteq KeySet(conflicts)
        /\ manualOverrides <=
            Cardinality({i \in 1..Len(manualTies.ties) : HasOwn(conflicts, manualTies.ties[i].key)})

\* C8: the override applier leaves the tie records as the resolver made
\* them, and these are the records written (as JSON) to emoji-ties.json.
C8_TiesUntouched ==
    [][/\ pc \in {"override", "writeEmojiToIcon", "writeByEmoji", "writeTies"} =>
            emojiTies' = emojiTies
       /\ pc = "writeTies" /\ files'["emoji-ties.json"].written =>
            /\ {files'["emoji-ties.json"].data.entries[i] :
                    i \in 1..Len(files'["emoji-ties.json"].data.entries)}
                = {JsonTies(emojiTies)[i] : i \in 1..Len(emojiTies)}
            /\ Len(files'["emoji-ties.json"].data.entries) = Len(emojiTies)]_vars

\* The tie file is written and holds a record whose head is no longer the
\* winner of its key.
C8_Witness ==
    /\ files["emoji-ties.json"].written
    /\ manualOverrides >= 1
    /\ \E t \in 1..Len(files["emoji-ties.json"].data.entries) :
        LET tie == files["emoji-ties.json"].data.entries[t]
        IN  /\ Len(tie.val) = 2
            /\ OwnValue(emojiToIcon, tie.key) = tie.val[2]
            /\ tie.val[1] # tie.val[2]

\* C9: applying the override map a second time changes neither the mapping
\* nor the tie records and replaces no winner.
C9_Idempotent ==
    Overridden =>
        LET again == ApplyManualOverrides(emojiToIcon, emojiTies, manualTies, logMessages)
        IN  /\ again.emojiToIcon = emojiToIcon
            /\ again.emojiTies = emojiTies
            /\ again.manualOverrides = 0

\* The first application has replaced two winners.
C9_Witness ==
    /\ pc = "writeEmojiToIcon"
    /\ manualTies.kind = "object"
    /\ manualOverrides = 2

Logged(log, level, message) ==
    \E n \in 1..Len(log) : log[n] = [level |-> level, message |-> message]

\* The file is there and is not a mapping from strings to non-empty sequences.
StructurallyInvalid(file) ==
    \/ file.kind \in {"unreadable", "invalid"}
    \/ file.kind = "object" /\ \E i \in 1..Len(file.ties) : ~IsNonEmptyArray(file.ties[i])

WellFormedPart(file) == [file EXCEPT !.ties = SelectSeq(@, IsNonEmptyArray)]

NoOverrides(file) ==
    \/ file.kind = "absent"
    \/ file.kind = "object" /\ file.ties = <<>>

\* Both mapping files are written with the override counter n.
CounterWritten(n) ==
    \A name \in {"emoji-to-icon.json", "emoji-to-icon-by-emoji.json"} :
        files[name].written /\ files[name].data.manualOverrides = n

\* C11: when the override file is absent, or holds no entry, applying it is
\* a no-op: the mapping and the tie records stay those of the resolver, the
\* override counter is 0, an absent file is no error, the override file
\* does not stop the run, and the run that writes its three files exits
\* with status 0 and has written the counter 0.
C11_AbsentIsNoOp ==
    /\ [][pc = "override" /\ NoOverrides(manualTies') =>
            /\ emojiToIcon' = emojiToIcon
            /\ emojiTies' = emojiTies
            /\ manualOverrides' = 0
            /\ manualTies'.kind = "absent" =>
                ~Logged(logMessages', "error", "Error reading manual tie-breaking file")
            /\ pc' = "writeEmojiToIcon" \/ TRUE \in IconNameSortThrows(emojiToIcon')]_vars
    /\ [](pc = "exited" /\ AllWritten /\ NoOverrides(manualTies) =>
            exitCode = 0 /\ CounterWritten(0))

\* A run without override file that has resolved a tie, written the three
\* files and exited with status 0.
C11_Witness ==
    /\ pc = "exited"
    /\ exitCode = 0
    /\ manualTies.kind = "absent"
    /\ AllWritten
    /\ emojiTies # <<>>
    /\ CounterWritten(0)

(***************************************************************************)
(* The override counter.                                                   *)
(***************************************************************************)
\* The resolver's output for the conflict sets of this run.
ResolvedMapping == ResolveAll(conflicts, <<>>).emojiToIcon

\* The entries of the override map whose key is in the resolved mapping and
\* whose first element is not the resolver's winner for that key.
DifferingEntries ==
    {i \in 1..Len(manualTies.ties) :
        /\ IsNonEmptyArray(manualTies.ties[i])
        /\ HasOwn(ResolvedMapping, manualTies.ties[i].key)
        /\ OwnValue(ResolvedMapping, manualTies.ties[i].key) # manualTies.ties[i].val.items[1]}

\* C12: once the overrides are applied the override counter is the number
\* of override entries whose key is in the resolved mapping and whose first
\* element differs from the resolver's winner, and that number is the one
\* written into both mapping files.
C12_OverrideCount ==
    Overridden =>
        /\ manualOverrides = Cardinality(DifferingEntries)
        /\ \A name \in {"emoji-to-icon.json", "emoji-to-icon-by-emoji.json"} :
            files[name].written =>
                files[name].data.manualOverrides = Cardinality(DifferingEntries)

(***************************************************************************)
(* Properties of the candidate collection.                                 *)
(***************************************************************************)
\* The collection loop has run to its end.
Collected == Logged(logMessages, "info", "Created emoji mappings")

\* The candidate a proposal yields.
PrimaryCandidateOf(a) ==
    [filename |-> a.filename, similarity |-> a.similarity, isPrimary |-> TRUE,
     altIndex |-> NoAltIndex]

\* The candidates, in input order, of the proposals whose label is k.
CandidatesLabelled(k) ==
    LET IsLabelled(a) == a.emoji = k
        labelled == SelectSeq(assignments, IsLabelled)
    IN  [i \in 1..Len(labelled) |-> PrimaryCandidateOf(labelled[i])]

Labels == {assignments[i].emoji : i \in 1..Len(assignments)} \ {EmptyLabel}

HasSubEmoji(a) == Trim(a.subEmoji) # EmptyLabel

\* The candidates, in input order, of the proposals with a non-empty label
\* and a secondary label whose concatenation is k.
CandidatesCombined(k) ==
    LET IsCombined(a) == a.emoji # EmptyLabel /\ HasSubEmoji(a) /\ a.emoji \o a.subEmoji = k
        combined == SelectSeq(assignments, IsCombined)
    IN  [i \in 1..Len(combined) |-> PrimaryCandidateOf(combined[i])]

Combinations ==
    {assignments[i].emoji \o assignments[i].subEmoji :
        i \in {j \in 1..Len(assignments) :
                  assignments[j].emoji # EmptyLabel /\ HasSubEmoji(assignments[j])}}

LacksFilename(a) == a.filename = Undefined

MalformedProposals == {i \in 1..Len(assignments) : LacksFilename(assignments[i])}

\* Some candidate, winner or tie member has no asset identifier.
MissingIdentifierKept ==
    \/ \E c \in 1..Len(conflicts) : \E n \in 1..Len(conflicts[c].val) :
        conflicts[c].val[n].filename = Undefined
    \/ \E m \in 1..Len(emojiToIcon) : emojiToIcon[m].val = Undefined
    \/ \E t \in 1..Len(emojiTies) : \E n \in 1..Len(emojiTies[t].val) :
        emojiTies[t].val[n] = Undefined

\* C15: a proposal without asset identifier aborts the collection pass: no
\* candidate, winner or tie member lacks its asset identifier, the
\* collection never completes, no output file is written and the exit
\* status is not zero.
C15_MissingFilenameFatal ==
    MalformedProposals # {} =>
        /\ ~MissingIdentifierKept
        /\ ~Collected
        /\ \A n \in OutputNames : ~files[n].written
        /\ pc = "exited" => exitCode # 0

WellFormed(a) == ~LacksFilename(a)

\* C16: a malformed proposal is left out and does not stop the run: the
\* conflict sets are those of the well-formed proposals alone, and when
\* the three files are written the exit status is zero.
C16_MalformedSkipped ==
    MalformedProposals # {} =>
        /\ Collected =>
            conflicts = CollectAll(SelectSeq(assignments, WellFormed)).conflicts
        /\ pc = "exited" /\ AllWritten => exitCode = 0

(***************************************************************************)
(* Determinism of the output files.                                        *)
(***************************************************************************)
\* A run on the input of the run before has written the three files and
\* exited with status 0.
RerunDone == previous.ran /\ pc = "exited" /\ exitCode = 0

WithoutGenerated(file) == [file EXCEPT !.data.generated = 0]

Pairs(obj) == {obj[i] : i \in 1..Len(obj)}

\* C18: after a successful run the two mapping files hold the same pairs,
\* those of the final mapping, each with a totalMappings that is the number
\* of its keys; every key of the tie file is a key of both mapping files
\* and totalTies is the number of keys of the tie file.
C18_ConsistentViews ==
    pc = "exited" /\ exitCode = 0 =>
        LET byAsset == files["emoji-to-icon.json"].data
            byLabel == files["emoji-to-icon-by-emoji.json"].data
            ties == files["emoji-ties.json"].data
        IN  /\ Pairs(byAsset.entries) = Pairs(byLabel.entries)
            /\ Pairs(byAsset.entries) = Pairs(emojiToIcon)
            /\ byAsset.totalMappings = Cardinality(KeySet(byAsset.entries))
            /\ byLabel.totalMappings = Cardinality(KeySet(byLabel.entries))
            /\ KeySet(ties.entries) \subseteq KeySet(byAsset.entries)
            /\ KeySet(ties.entries) \subseteq KeySet(byLabel.entries)
            /\ ties.totalTies = Cardinality(KeySet(ties.entries))

\* Graphemes of one symbol of the model ("constructor" stands for its
\* eleven letters).
GraphemesOf(c) == IF c = "constructor" THEN 11 ELSE 1

\* Number of grapheme units of a label: a symbol is one, together with the
\* modifier or variation selector that may follow it.
RECURSIVE GraphemeUnits(_)
GraphemeUnits(s) ==
    IF s = <<>> THEN 0
    ELSE IF Head(s) \in {VariationSelector} \cup EmojiModifier
    THEN GraphemeUnits(Tail(s))
    ELSE GraphemesOf(Head(s)) + GraphemeUnits(Tail(s))

\* a is not after b by (n(a), n(b)), then by string comparison of the keys.
KeyOrdered(na, nb, a, b) == na < nb \/ (na = nb /\ localeCompare(a, b) <= 0)

\* C19: the entries of each written file are in non-decreasing order: by
\* asset identifier in the by-asset file, by number of graphemes of the key
\* and then by key in the by-label file, by length of the key and then by
\* key in the tie file.
C19_ViewsSorted ==
    /\ files["emoji-to-icon.json"].written =>
        LET e == files["emoji-to-icon.json"].data.entries
        IN  \A i, j \in 1..Len(e) : i < j => FilenameRank(e[i].val) <= FilenameRank(e[j].val)
    /\ files["emoji-to-icon-by-emoji.json"].written =>
        LET e == files["emoji-to-icon-by-emoji.json"].data.entries
        IN  \A i, j \in 1..Len(e) : i < j =>
                KeyOrdered(GraphemeUnits(e[i].key), GraphemeUnits(e[j].key), e[i].key, e[j].key)
    /\ files["emoji-ties.json"].written =>
        LET e == files["emoji-ties.json"].data.entries
        IN  \A i, j \in 1..Len(e) : i < j =>
                KeyOrdered(Length(e[i].key), Length(e[j].key), e[i].key, e[j].key)

(***************************************************************************)
(* A primary input that cannot be used.                                    *)
(***************************************************************************)
\* The input was unreadable, or could not be iterated, or the collection
\* stopped on it, or what it lists are no proposals, or one of its
\* proposals lacks a required property.
InvalidInput ==
    \/ pc \in {"failed", "exited"} /\ ~Collected
    \/ assignments = <<NoProposal>>
    \/ MalformedProposals # {}

\* C20: when the primary input is missing, unreadable or structurally
\* invalid no output file is written and the exit status is not zero.
C20_FatalInput ==
    InvalidInput =>
        /\ \A n \in OutputNames : ~files[n].written
        /\ pc \notin {"writeEmojiToIcon", "writeByEmoji", "writeTies", "succeeded"}
        /\ pc = "exited" => exitCode # 0

(***************************************************************************)
(* Exit status and the log file.                                           *)
(***************************************************************************)
\* C21: the process exits with status 0 exactly when the run has written
\* its three files; a write that fails ends the run there with the later
\* files unwritten and files already written left as they are, and the
\* exit status is then not zero.
C21_ExitStatus ==
    /\ [][/\ pc \in {"writeEmojiToIcon", "writeByEmoji", "writeTies"} /\ files' = files =>
                pc' = "failed"
          /\ pc \in {"failed", "succeeded", "exited"} => files' = files]_vars
    /\ [](/\ pc = "exited" => (exitCode = 0 <=> AllWritten)
          /\ pc = "exited" => exitCode \in {0, 1}
          /\ pc = "failed" => ~AllWritten
          /\ files["emoji-ties.json"].written => files["emoji-to-icon-by-emoji.json"].written
          /\ files["emoji-to-icon-by-emoji.json"].written => files["emoji-to-icon.json"].written)

\* Two files written, the third write failed: exit status 1.
C21_Witness ==
    /\ pc = "exited"
    /\ exitCode = 1
    /\ files["emoji-to-icon.json"].written
    /\ files["emoji-to-icon-by-emoji.json"].written
    /\ ~files["emoji-ties.json"].written

\* C22: the log is written to its file by one step only, the one that
\* ends the run, successful or not, before the process exits; what it
\* writes is the whole log, which on a failed run holds the error entries;
\* the exit status depends on the run alone, not on whether the log could
\* be written.
C22_LogFlushedOnce ==
    /\ [][/\ pc \in {"succeeded", "failed"} =>
                /\ pc' = "exited"
                /\ logFile' = logMessages \/ logFile' = logFile
                /\ logMessages' = logMessages
                /\ exitCode' = IF pc = "succeeded" THEN 0 ELSE 1
                /\ pc = "failed" =>
                    /\ Logged(logMessages, "error", "Failed to create emoji-to-icon mapping")
                    /\ logMessages[Len(logMessages)] = [level |-> "error", message |-> "Script failed"]
          /\ pc \notin {"succeeded", "failed"} =>
                logFile' = logFile /\ exitCode' = exitCode]_vars
    /\ [](pc # "exited" => exitCode = -1 /\ logFile = <<>>)

\* A failed run whose log, error entries included, is in the log file.
C22_Witness ==
    /\ pc = "exited"
    /\ exitCode = 1
    /\ logFile = logMessages
    /\ Logged(logFile, "error", "Script failed")

(***************************************************************************)
(* Properties of the resolver on conflict sets with non-primary            *)
(* candidates.                                                             *)
(***************************************************************************)
\* C23: for every key with two or more candidates of which exactly one is
\* primary, the winner is that primary candidate and the key has no tie
\* record.
C23_SinglePrimaryWins ==
    Resolved =>
        \A c \in 1..Len(conflicts) :
            LET cs == conflicts[c].val
            IN  Len(cs) >= 2 /\ Cardinality(PrimaryIndexes(cs)) = 1 =>
                    /\ \A i \in PrimaryIndexes(cs) :
                        OwnValue(emojiToIcon, conflicts[c].key) = cs[i].filename
                    /\ ~HasOwn(emojiTies, conflicts[c].key)

\* The primary candidate has won against a non-primary candidate of another
\* asset that was inserted before it with a greater similarity.
C23_Witness ==
    /\ Resolved
    /\ Len(conflicts[1].val) >= 2
    /\ ~conflicts[1].val[1].isPrimary
    /\ conflicts[1].val[2].isPrimary
    /\ Cardinality(PrimaryIndexes(conflicts[1].val)) = 1
    /\ conflicts[1].val[1].similarity > conflicts[1].val[2].similarity
    /\ conflicts[1].val[1].filename # conflicts[1].val[2].filename
    /\ emojiToIcon[1].val = conflicts[1].val[2].filename

\* i is the candidate of least altIndex, the earliest of them.
EarliestLeastAltIndex(cs, i) ==
    \A j \in 1..Len(cs) :
        \/ cs[j].altIndex > cs[i].altIndex
        \/ cs[j].altIndex = cs[i].altIndex /\ i <= j

\* C24: for every key with two or more candidates none of which is
\* primary, the winner is the candidate of least altIndex, the earliest
\* inserted of them, and the key has no tie record.
C24_LeastAltIndexWins ==
    Resolved =>
        \A c \in 1..Len(conflicts) :
            LET cs == conflicts[c].val
            IN  Len(cs) >= 2 /\ PrimaryIndexes(cs) = {} =>
                    /\ \A i \in 1..Len(cs) :
                        EarliestLeastAltIndex(cs, i) =>
                            OwnValue(emojiToIcon, conflicts[c].key) = cs[i].filename
                    /\ ~HasOwn(emojiTies, conflicts[c].key)

\* Among non-primary candidates only, the second one inserted has the
\* least altIndex and has won against another asset.
C24_Witness ==
    /\ Resolved
    /\ Len(conflicts[1].val) >= 2
    /\ PrimaryIndexes(conflicts[1].val) = {}
    /\ conflicts[1].val[1].altIndex > conflicts[1].val[2].altIndex
    /\ conflicts[1].val[1].filename # conflicts[1].val[2].filename
    /\ emojiToIcon[1].val = conflicts[1].val[2].filename

(***************************************************************************)
(* The mapping after the override block, and the kind of the candidates.   *)
(***************************************************************************)
\* Every value of the mapping is the filename of a candidate of its key.
WinnersAreCandidates(mapping) ==
    \A i \in 1..Len(mapping) :
        /\ HasOwn(conflicts, mapping[i].key)
        /\ \E n \in 1..Len(OwnValue(conflicts, mapping[i].key)) :
            OwnValue(conflicts, mapping[i].key)[n].filename = mapping[i].val

\* C25: at every stage, in the mapping in memory and in the two mapping
\* files once written, the value of every key is the filename of one of
\* the candidates of the key's conflict set, whatever the override file.
C25_WinnerIsCandidate ==
    /\ WinnersAreCandidates(emojiToIcon)
    /\ \A name \in {"emoji-to-icon.json", "emoji-to-icon-by-emoji.json"} :
        files[name].written => WinnersAreCandidates(files[name].data.entries)

(***************************************************************************)
(* The script on proposals that carry alternative labels (the property     *)
(* alternativeEmojis of interface Assignment, which the collection loop    *)
(* as shipped does not read).                                              *)
(***************************************************************************)
MaxProposals == 2

AlternativeEmojis == {<<>>, <<Gear>>, <<Gear, <<"U+2795">>>>}

AssignmentWithAlternatives ==
    [filename : {"add", "plus"}, emoji : {<<"U+2795">>, EmptyLabel},
     subEmoji : {EmptyLabel, <<"U+1F4C4">>}, similarity : {80},
     alternativeEmojis : AlternativeEmojis]

InputFilesWithAlternatives ==
    {[readable |-> TRUE, iterable |-> TRUE, assignments |-> l] :
        l \in SeqsUpTo(AssignmentWithAlternatives, MaxProposals)}

ReadInputWithAlternatives == ReadInputOf(InputFilesWithAlternatives)

NextAlternatives ==
    \/ ReadInputWithAlternatives
    \/ Collect
    \/ Resolve
    \/ OverrideAbsent
    \/ WriteEmojiToIcon
    \/ WriteEmojiToIconByEmoji
    \/ WriteEmojiTies
    \/ SaveLogAndExit

SpecAlternatives == Init /\ [][NextAlternatives]_vars

\* The labels a proposal gives its asset without its alternative labels.
PrimaryLabels(a) ==
    IF a.emoji = EmptyLabel THEN {}
    ELSE {a.emoji} \cup (IF HasSubEmoji(a) THEN {a.emoji \o a.subEmoji} ELSE {})

\* C26: whatever the alternative labels of the proposals, every candidate
\* of every conflict set is primary, every key of the conflict sets is the
\* label or the combined label of a proposal, the count of alternative
\* mappings is 0 and 0 is what the two mapping files hold.
C26_NoAlternativeCandidates ==
    /\ \A c \in 1..Len(conflicts) :
        /\ \A n \in 1..Len(conflicts[c].val) :
            conflicts[c].val[n].isPrimary /\ conflicts[c].val[n].altIndex = NoAltIndex
        /\ \E i \in 1..Len(assignments) : conflicts[c].key \in PrimaryLabels(assignments[i])
    /\ alternativeMappings = 0
    /\ \A name \in {"emoji-to-icon.json", "emoji-to-icon-by-emoji.json"} :
        files[name].written => files[name].data.alternativeMappings = 0

\* A proposal has an alternative label that no proposal has as its label:
\* the files are written without a key for it.
C26_Witness ==
    /\ AllWritten
    /\ Len(assignments) = 2
    /\ assignments[1].alternativeEmojis = <<Gear>>
    /\ assignments[1].emoji = <<"U+2795">>
    /\ conflicts # <<>>
    /\ ~HasOwn(conflicts, Gear)
    /\ files["emoji-to-icon.json"].data.alternativeMappings = 0

(***************************************************************************)
(* groupIconSets (group-icon-sets.ts).  A PNG file is the list of the      *)
(* words of its base name, basename(f, ".png").split(/[-_]/); a group name *)
(* is the list of the parts its string joins with "-".                     *)
(***************************************************************************)
MaxFiles == 4

MaxSize == 2

\* The mapping script is not running.
MappingIdle ==
    /\ pc = "idle"
    /\ assignments = <<>>
    /\ conflicts = <<>>
    /\ primaryMappings = 0
    /\ alternativeMappings = 0
    /\ totalMappings = 0
    /\ emojiToIcon = <<>>
    /\ emojiTies = <<>>
    /\ manualTies = NotRead
    /\ manualOverrides = 0
    /\ files = [n \in OutputNames |-> NotWritten]
    /\ logMessages = <<>>
    /\ logFile = <<>>
    /\ exitCode = -1
    /\ run = 1
    /\ previous = NoRun

PngFiles ==
    {<<"add">>, <<"arrow">>, <<"arrow", "up">>, <<"arrow", "down">>,
     <<"arrow", "circle">>, <<"Arrow", "circle", "filled">>}

\* Lists of distinct files.
PngFileLists ==
    {l \in SeqsUpTo(PngFiles, MaxFiles) :
        \A i, j \in 1..Len(l) : l[i] = l[j] => i = j}

\* The size parameters, zero included.
Sizes == 0..MaxSize

ToLowerCase(w) == IF w = "Arrow" THEN "arrow" ELSE w

directionWords == {"up", "down", "left", "right", "bidirectional"}

\* filename.split(/[-_]/)[0].toLowerCase()
FirstWord(f) == ToLowerCase(f[1])

\* parts[1] ? parts[1].toLowerCase() : "__none__", the direction words as one.
SecondWord(f) ==
    LET word == IF Len(f) >= 2 /\ f[2] # "" THEN ToLowerCase(f[2]) ELSE "__none__"
    IN  IF word \in directionWords THEN "__direction__" ELSE word

\* if (!map.has(k)) map.set(k, []); map.get(k).push(x)
MapPush(map, k, x) ==
    IF HasOwn(map, k) THEN Assign(map, k, Append(OwnValue(map, k), x))
    ELSE Append(map, [key |-> k, val |-> <<x>>])

RECURSIVE FirstWordGroupsFrom(_, _, _)
FirstWordGroupsFrom(map, list, i) ==
    IF i > Len(list) THEN map
    ELSE FirstWordGroupsFrom(MapPush(map, FirstWord(list[i]), list[i]), list, i + 1)

firstWordGroups(list) == FirstWordGroupsFrom(<<>>, list, 1)

RECURSIVE SecondWordGroupsFrom(_, _, _)
SecondWordGroupsFrom(map, group, i) ==
    IF i > Len(group) THEN map
    ELSE SecondWordGroupsFrom(MapPush(map, SecondWord(group[i]), group[i]), group, i + 1)

secondWordGroups(group) == SecondWordGroupsFrom(<<>>, group, 1)

\* The second words of the files that have one (not lower-cased).
SecondWords(list) ==
    LET HasSecondWord(f) == Len(f) >= 2 /\ f[2] # "" /\ f[2] # "__none__"
        with == SelectSeq(list, HasSecondWord)
    IN  [i \in 1..Len(with) |-> with[i][2]]

\* Object.entries(wordCounts).sort(([, a], [, b]) => b - a)[0][0]: the word
\* of greatest count, the first met of them.
MostCommon(words) ==
    LET Count(w) == Cardinality({i \in 1..Len(words) : words[i] = w})
        first == CHOOSE i \in 1..Len(words) :
                    /\ \A j \in 1..Len(words) : Count(words[j]) <= Count(words[i])
                    /\ \A j \in 1..(i - 1) : Count(words[j]) < Count(words[i])
    IN  words[first]

\* The index of a group that is not a subgroup (the argument is not given).
NoIndex == -1

generateGroupName(list, baseWord, index) ==
    IF index = NoIndex THEN <<baseWord>>
    ELSE IF Len(SecondWords(list)) > 0
    THEN IF MostCommon(SecondWords(list)) = "__direction__"
         THEN <<baseWord, "directions">>
         ELSE <<baseWord, MostCommon(SecondWords(list))>>
    ELSE <<baseWord, ToString(index + 1)>>

\* list.slice(from, to) for 0 <= from < to
Slice(list, from, to) ==
    SubSeq(list, from + 1, IF to < Len(list) THEN to ELSE Len(list))

\* The loop of lines 97-101 for a positive chunk size.
RECURSIVE ExtrasChunks(_, _, _, _, _)
ExtrasChunks(groups, firstWord, extrasGroup, size, i) ==
    IF i >= Len(extrasGroup) THEN groups
    ELSE ExtrasChunks(
            Append(groups, [name |-> <<firstWord, "extras", ToString((i \div size) + 1)>>,
                            files |-> Slice(extrasGroup, i, i + size)]),
            firstWord, extrasGroup, size, i + size)

\* The loop of lines 97-101 never ends: i += size does not bring i to the
\* length of the list.
ChunksForever(extrasGroup, size) ==
    Len(extrasGroup) > 0 /\ ~(Len(extrasGroup) <= size) /\ size <= 0

\* The loop of lines 79-87 over secondWordGroups.values().
RECURSIVE SubgroupsFrom(_, _, _, _, _)
SubgroupsFrom(st, firstWord, subgroups, i, minSize) ==
    IF i > Len(subgroups) THEN st
    ELSE LET subgroup == subgroups[i].val
         IN  SubgroupsFrom(
                IF Len(subgroup) < minSize
                THEN [st EXCEPT !.extrasGroup = @ \o subgroup]
                ELSE [st EXCEPT
                        !.finalGroups = Append(@,
                            [name |-> generateGroupName(subgroup, firstWord, st.subgroupIndex),
                             files |-> subgroup]),
                        !.subgroupIndex = @ + 1],
                firstWord, subgroups, i + 1, minSize)

\* The body of the loop over firstWordGroups.entries(), lines 57-107.
\* "st" is [returns, finalGroups]; once the chunking loop does not end
\* nothing more is done.
GroupFirstWord(st, firstWord, group, maxGroup, minSubgroup, maxExtras) ==
    IF ~st.returns THEN st
    ELSE IF Len(group) > maxGroup
    THEN LET sub == SubgroupsFrom([finalGroups |-> st.finalGroups, extrasGroup |-> <<>>,
                                   subgroupIndex |-> 0],
                                  firstWord, secondWordGroups(group), 1, minSubgroup)
         IN  IF Len(sub.extrasGroup) = 0
             THEN [st EXCEPT !.finalGroups = sub.finalGroups]
             ELSE IF Len(sub.extrasGroup) <= maxExtras
             THEN [st EXCEPT !.finalGroups =
                      Append(sub.finalGroups,
                             [name |-> <<firstWord, "extras", "1">>, files |-> sub.extrasGroup])]
             ELSE IF ChunksForever(sub.extrasGroup, maxExtras)
             THEN [st EXCEPT !.returns = FALSE]
             ELSE [st EXCEPT !.finalGroups =
                      ExtrasChunks(sub.finalGroups, firstWord, sub.extrasGroup, maxExtras, 0)]
    ELSE [st EXCEPT !.finalGroups =
             Append(@, [name |-> generateGroupName(group, firstWord, NoIndex),
                        files |-> group])]

RECURSIVE GroupFrom(_, _, _, _, _, _)
GroupFrom(st, groups, i, maxGroup, minSubgroup, maxExtras) ==
    IF i > Len(groups) THEN st
    ELSE GroupFrom(GroupFirstWord(st, groups[i].key, groups[i].val,
                                  maxGroup, minSubgroup, maxExtras),
                   groups, i + 1, maxGroup, minSubgroup, maxExtras)

\* [returns, finalGroups]: whether the call returns, and what.
groupIconSets(list, maxGroup, minSubgroup, maxExtras) ==
    GroupFrom([returns |-> TRUE, finalGroups |-> <<>>], firstWordGroups(list), 1,
              maxGroup, minSubgroup, maxExtras)

InitGrouping ==
    /\ MappingIdle
    /\ OrchestrationIdle
    /\ pngFiles \in PngFileLists
    /\ maxGroupSize \in Sizes
    /\ minSubgroupSize \in Sizes
    /\ maxExtrasGroupSize \in Sizes
    /\ grouping = "called"
    /\ finalGroups = <<>>

\* The call: it returns its groups, or never leaves the chunking loop.
GroupIconSets ==
    /\ grouping = "called"
    /\ LET st == groupIconSets(pngFiles, maxGroupSize, minSubgroupSize, maxExtrasGroupSize)
       IN  IF st.returns
           THEN /\ finalGroups' = st.finalGroups
                /\ grouping' = "returned"
           ELSE /\ finalGroups' = finalGroups
                /\ grouping' = "looping"
    /\ UNCHANGED <<pngFiles, maxGroupSize, minSubgroupSize, maxExtrasGroupSize>>
    /\ UNCHANGED <<mappingVars, orchestrationVars>>

NextGrouping == GroupIconSets

SpecGrouping == InitGrouping /\ [][NextGrouping]_vars

\* How many times the file is in the groups.
Occurrences(f) ==
    Cardinality({p \in (1..Len(finalGroups)) \X (1..MaxFiles + 1) :
                    p[2] <= Len(finalGroups[p[1]].files) /\ finalGroups[p[1]].files[p[2]] = f})

IsExtrasGroup(g) == Len(g.name) = 3 /\ g.name[2] = "extras"

IsSubgroup(g) == Len(g.name) = 2

Partitioned ==
    /\ \A i \in 1..Len(pngFiles) : Occurrences(pngFiles[i]) = 1
    /\ \A g \in 1..Len(finalGroups) :
        /\ Len(finalGroups[g].files) > 0
        /\ \A i \in 1..Len(finalGroups[g].files) :
            \E n \in 1..Len(pngFiles) : pngFiles[n] = finalGroups[g].files[i]
        /\ IsExtrasGroup(finalGroups[g]) => Len(finalGroups[g].files) <= maxExtrasGroupSize
        /\ IsSubgroup(finalGroups[g]) => Len(finalGroups[g].files) >= minSubgroupSize

\* C29 as stated: for every list of distinct files and every setting of the
\* size parameters the call returns groups in which each file is exactly
\* once, none is empty, the extras groups have at most maxExtrasGroupSize
\* files and the named subgroups at least minSubgroupSize.
C29_PartitionForEverySetting ==
    grouping # "called" => grouping = "returned" /\ Partitioned

\* What the call does keep: a call that returns has returned such groups,
\* and the call returns whenever maxExtrasGroupSize is at least 1.
PartitionWhenReturned ==
    /\ grouping = "returned" => Partitioned
    /\ grouping = "looping" =>
        /\ maxExtrasGroupSize <= 0
        /\ pngFiles # <<>>
        /\ finalGroups = <<>>
    /\ maxExtrasGroupSize >= 1 /\ grouping # "called" => grouping = "returned"

(***************************************************************************)
(* The orchestration script (assign-emoji.ts): filterProcessedGroups, the  *)
(* mergeMap of main over the pending groups, assignEmojiToIcons with its   *)
(* retry, saveGroupResult and aggregateResults.  A group is its index in   *)
(* allIconGroups; an error message is the list of its parts.               *)
(***************************************************************************)
MaxGroups == 3

\* Re-attempts of one group the model follows (the code has no limit).
MaxAttempts == 2

\* mergeMap(..., 2)
Concurrency == 2

\* parseInt(... || "30")
DefaultRetrySeconds == 30

IconGroup(i) ==
    [name |-> <<"group", ToString(i)>>,
     files |-> IF i % 2 = 1 THEN <<<<"add">>>> ELSE <<<<"arrow", "up">>, <<"arrow", "down">>>>]

\* The result file of a group in emoji-groups: not there; there but not
\* readable; text with "n/a" in it; text that is not JSON; JSON without a
\* list of assignments, such as {}; a saved result.
GroupFiles == {"absent", "unreadable", "n/a", "not JSON", "no assignments", "result"}

\* The result files of n groups; at most one of them is neither absent nor
\* a saved result.
GroupFileStates(n) ==
    {f \in [1..n -> GroupFiles] :
        Cardinality({g \in 1..n : f[g] \notin {"absent", "result"}}) <= 1}

\* JSON.parse(content) as GroupAssignmentResult
ParsedResult(g, file) ==
    [group |-> g, hasAssignments |-> file = "result",
     assignments |-> IF file = "result" THEN Len(allIconGroups[g].files) ELSE 0]

\* The body of the loop of filterProcessedGroups for one group; "st" is
\* [pendingGroups, existingGroups, groupFile].
FilterGroup(st, g) ==
    LET file == st.groupFile[g]
    IN  IF file = "absent"
        THEN [st EXCEPT !.pendingGroups = Append(@, g)]
        ELSE IF file = "unreadable" \/ file = "not JSON"
        THEN [st EXCEPT !.pendingGroups = Append(@, g)]
        ELSE IF file = "n/a"
        THEN [st EXCEPT !.groupFile[g] = "absent", !.pendingGroups = Append(@, g)]
        ELSE IF file = "no assignments"
        THEN [st EXCEPT !.existingGroups = Append(@, ParsedResult(g, file)),
                        !.pendingGroups = Append(@, g)]
        ELSE [st EXCEPT !.existingGroups = Append(@, ParsedResult(g, file))]

RECURSIVE FilterFrom(_, _)
FilterFrom(st, g) ==
    IF g > Len(allIconGroups) THEN st
    ELSE FilterFrom(FilterGroup(st, g), g + 1)

filterProcessedGroups ==
    FilterFrom([pendingGroups |-> <<>>, existingGroups |-> <<>>, groupFile |-> groupFile], 1)

RECURSIVE SumAssignments(_, _)
SumAssignments(results, i) ==
    IF i > Len(results) THEN 0
    ELSE results[i].assignments + SumAssignments(results, i + 1)

\* Error messages.
NoError == <<>>

\* What the classification service can throw.
ApiErrors ==
    {<<"exceeded token", "rate limit", "retry after", "15", "seconds">>,
     <<"rate limit", "reached">>,
     <<"Request timed out after", "30", "seconds">>}

\* What the service answers for a group of n icons: no content, text
\* without an array, an array that is not JSON, an array of n or of n + 1
\* elements.
Responses(n) ==
    {[content |-> c, length |-> 0] : c \in {"none", "text", "bad array"}}
    \cup {[content |-> "array", length |-> k] : k \in {n, n + 1}}

\* What the try block of assignEmojiToIcons throws for a response.
ResponseError(response, n) ==
    IF response.content = "none" THEN <<"No response content received">>
    ELSE IF response.content = "text" THEN <<"No JSON array found in response">>
    ELSE IF response.content = "bad array" THEN <<"Unexpected token">>
    ELSE IF response.length # n
    THEN <<"Parsed response length", "does not match user message length">>
    ELSE NoError

\* error.message.includes(part)
Includes(message, part) == \E i \in 1..Len(message) : message[i] = part

Digits == {"15", "30"}

parseInt(digits) == IF digits = "15" THEN 15 ELSE 30

\* parseInt(error.message.match(/(\d+) seconds/)?.[1] || "30")
retrySeconds(message) ==
    LET matches == {i \in 1..(Len(message) - 1) :
                        message[i] \in Digits /\ message[i + 1] = "seconds"}
    IN  IF matches = {} THEN DefaultRetrySeconds
        ELSE parseInt(message[CHOOSE i \in matches : \A j \in matches : i <= j])

\* The state of a group in the mergeMap that is not in a call of
\* assignEmojiToIcons: not pending ("none"), buffered, saved or failed.
InPhase(phase) == [phase |-> phase, attempts |-> 0, timer |-> 0, error |-> NoError]

Active(an) == {g \in DOMAIN an : an[g].phase \in {"calling", "caught", "delaying", "saving"}}

\* Mutant: every buffered group is subscribed to at once.
StartBufferedAll(an, pending) ==
    [g \in DOMAIN an |->
        IF an[g].phase = "buffered" THEN [an[g] EXCEPT !.phase = "calling"] ELSE an[g]]

\* mergeMap subscribes to buffered values, in their order, while fewer than
\* Concurrency inner subscriptions are active.
RECURSIVE StartBuffered(_, _)
StartBuffered(an, pending) ==
    LET waiting == {i \in 1..Len(pending) : an[pending[i]].phase = "buffered"}
    IN  IF waiting = {} \/ Cardinality(Active(an)) >= Concurrency THEN an
        ELSE LET first == CHOOSE i \in waiting : \A j \in waiting : i <= j
             IN  StartBuffered([an EXCEPT ![pending[first]].phase = "calling"], pending)

InitOrchestration ==
    /\ MappingIdle
    /\ GroupingIdle
    /\ orchestration = "filter"
    /\ allIconGroups \in {[i \in 1..n |-> IconGroup(i)] : n \in 1..MaxGroups}
    /\ groupFile \in GroupFileStates(Len(allIconGroups))
    /\ pendingGroups = <<>>
    /\ existingGroups = <<>>
    /\ analysis = [g \in 1..Len(allIconGroups) |-> InPhase("none")]
    /\ progress = 0
    /\ errors = 0
    /\ newAssignments = 0
    /\ outputFile = [written |-> FALSE]

\* const { pendingGroups, existingGroups } = await filterProcessedGroups(...)
FilterProcessedGroups ==
    /\ orchestration = "filter"
    /\ pendingGroups' = filterProcessedGroups.pendingGroups
    /\ existingGroups' = filterProcessedGroups.existingGroups
    /\ groupFile' = filterProcessedGroups.groupFile
    /\ orchestration' = "filtered"
    /\ UNCHANGED <<allIconGroups, analysis, progress, errors, newAssignments, outputFile>>
    /\ UNCHANGED <<mappingVars, groupingVars>>

\* Lines 80-117: the counts (reading assignments.length of a result that
\* has none throws, and nothing catches it), then either the aggregation
\* at once or the mergeMap over the pending groups.
StartAnalysis ==
    /\ orchestration = "filtered"
    /\ IF \E i \in 1..Len(existingGroups) : ~existingGroups[i].hasAssignments
       THEN /\ orchestration' = "crashed"
            /\ UNCHANGED <<analysis, progress>>
       ELSE IF Len(pendingGroups) = 0
       THEN /\ orchestration' = "aggregate"
            /\ UNCHANGED <<analysis, progress>>
       ELSE /\ orchestration' = "classify"
            /\ progress' = SumAssignments(existingGroups, 1)
            /\ analysis' = StartBuffered(
                    [g \in DOMAIN analysis |->
                        IF \E i \in 1..Len(pendingGroups) : pendingGroups[i] = g
                        THEN InPhase("buffered") ELSE InPhase("none")],
                    pendingGroups)
    /\ UNCHANGED <<allIconGroups, groupFile, pendingGroups, existingGroups, errors,
                   newAssignments, outputFile>>
    /\ UNCHANGED <<mappingVars, groupingVars>>

\* The catch of the mergeMap callback, lines 108-112, and the subscription
\* to the next buffered group.
RecordFailure(g) ==
    /\ errors' = errors + Len(allIconGroups[g].files)
    /\ progress' = progress + Len(allIconGroups[g].files)
    /\ analysis' = StartBuffered(
            [analysis EXCEPT ![g] = InPhase("failed")],
            pendingGroups)

\* azureOpenAI.chat.completions.create settles: it throws, or its response
\* is checked by lines 251-268.  The model follows MaxAttempts re-attempts.
Respond(g) ==
    /\ orchestration = "classify"
    /\ analysis[g].phase = "calling"
    /\ \E error \in ApiErrors
                    \cup {ResponseError(r, Len(allIconGroups[g].files)) :
                            r \in Responses(Len(allIconGroups[g].files))} :
        /\ Includes(error, "rate limit") => analysis[g].attempts < MaxAttempts
        /\ analysis' = [analysis EXCEPT ![g] =
                IF error = NoError THEN [@ EXCEPT !.phase = "saving"]
                ELSE [@ EXCEPT !.phase = "caught", !.error = error]]
    /\ UNCHANGED <<orchestration, allIconGroups, groupFile, pendingGroups, existingGroups,
                   progress, errors, newAssignments, outputFile>>
    /\ UNCHANGED <<mappingVars, groupingVars>>

\* Mutant: every failure is retried.
CatchRetryAlways(g) ==
    /\ orchestration = "classify"
    /\ analysis[g].phase = "caught"
    /\ analysis' = [analysis EXCEPT ![g] =
            [@ EXCEPT !.phase = "delaying", !.timer = retrySeconds(analysis[g].error)]]
    /\ UNCHANGED <<progress, errors>>
    /\ UNCHANGED <<orchestration, allIconGroups, groupFile, pendingGroups, existingGroups,
                   newAssignments, outputFile>>
    /\ UNCHANGED <<mappingVars, groupingVars>>

\* The catch of assignEmojiToIcons, lines 276-286: the timer of the retry,
\* or null, which main throws on and counts as a failure.
Catch(g) ==
    /\ orchestration = "classify"
    /\ analysis[g].phase = "caught"
    /\ IF Includes(analysis[g].error, "rate limit")
       THEN /\ analysis' = [analysis EXCEPT ![g] =
                    [@ EXCEPT !.phase = "delaying", !.timer = retrySeconds(analysis[g].error)]]
            /\ UNCHANGED <<progress, errors>>
       ELSE RecordFailure(g)
    /\ UNCHANGED <<orchestration, allIconGroups, groupFile, pendingGroups, existingGroups,
                   newAssignments, outputFile>>
    /\ UNCHANGED <<mappingVars, groupingVars>>

\* The timer of line 281 fires: return assignEmojiToIcons(iconGroup).
Retry(g) ==
    /\ orchestration = "classify"
    /\ analysis[g].phase = "delaying"
    /\ analysis' = [analysis EXCEPT ![g] =
            [@ EXCEPT !.phase = "calling", !.attempts = @ + 1, !.timer = 0, !.error = NoError]]
    /\ UNCHANGED <<orchestration, allIconGroups, groupFile, pendingGroups, existingGroups,
                   progress, errors, newAssignments, outputFile>>
    /\ UNCHANGED <<mappingVars, groupingVars>>

\* await saveGroupResult(...): the file is written, or writeFile throws
\* into the catch of the callback.
SaveGroupResult(g) ==
    /\ orchestration = "classify"
    /\ analysis[g].phase = "saving"
    /\ \E ok \in BOOLEAN :
        IF ok
        THEN /\ groupFile' = [groupFile EXCEPT ![g] = "result"]
             /\ newAssignments' = newAssignments + Len(allIconGroups[g].files)
             /\ progress' = progress + Len(allIconGroups[g].files)
             /\ errors' = errors
             /\ analysis' = StartBuffered(
                    [analysis EXCEPT ![g] = InPhase("saved")], pendingGroups)
        ELSE /\ RecordFailure(g)
             /\ UNCHANGED <<groupFile, newAssignments>>
    /\ UNCHANGED <<orchestration, allIconGroups, pendingGroups, existingGroups, outputFile>>
    /\ UNCHANGED <<mappingVars, groupingVars>>

\* await lastValueFrom(analysis$): the observable completes when every
\* inner subscription has.
AnalysisComplete ==
    /\ orchestration = "classify"
    /\ \A g \in DOMAIN analysis : analysis[g].phase \in {"none", "saved", "failed"}
    /\ orchestration' = "aggregate"
    /\ UNCHANGED <<allIconGroups, groupFile, pendingGroups, existingGroups, analysis,
                   progress, errors, newAssignments, outputFile>>
    /\ UNCHANGED <<mappingVars, groupingVars>>

RECURSIVE AggregatedTotal(_)
AggregatedTotal(g) ==
    IF g > Len(allIconGroups) THEN 0
    ELSE (IF groupFile[g] = "result" THEN Len(allIconGroups[g].files) ELSE 0)
         + AggregatedTotal(g + 1)

\* await aggregateResults(allIconGroups): the output file is written, or
\* writeFile throws and nothing catches it.
AggregateResults ==
    /\ orchestration = "aggregate"
    /\ \E ok \in BOOLEAN :
        IF ok
        THEN /\ outputFile' = [written |-> TRUE, total |-> AggregatedTotal(1)]
             /\ orchestration' = "done"
        ELSE /\ outputFile' = outputFile
             /\ orchestration' = "crashed"
    /\ UNCHANGED <<allIconGroups, groupFile, pendingGroups, existingGroups, analysis,
                   progress, errors, newAssignments>>
    /\ UNCHANGED <<mappingVars, groupingVars>>

NextOrchestration ==
    \/ FilterProcessedGroups
    \/ StartAnalysis
    \/ \E g \in DOMAIN analysis : Respond(g)
    \/ \E g \in DOMAIN analysis : Catch(g)
    \/ \E g \in DOMAIN analysis : Retry(g)
    \/ \E g \in DOMAIN analysis : SaveGroupResult(g)
    \/ AnalysisComplete
    \/ AggregateResults

SpecOrchestration == InitOrchestration /\ [][NextOrchestration]_vars

(***************************************************************************)
(* Properties of the orchestration script.                                 *)
(***************************************************************************)
\* How many times the group is in a list of groups.
TimesIn(groups, g) == Cardinality({i \in 1..Len(groups) : groups[i] = g})

ExistingGroupsOf(results) == [i \in 1..Len(results) |-> results[i].group]

\* The file exists, can be read, is JSON and has no "n/a" in it.
Completed(file) == file \in {"result", "no assignments"}

PendingSettled ==
    \A g \in DOMAIN analysis :
        TimesIn(pendingGroups, g) > 0 => analysis[g].phase \in {"saved", "failed"}

\* C27: filterProcessedGroups puts every group in exactly one of
\* pendingGroups and existingGroups, in existingGroups exactly when its
\* result file exists, is readable, is JSON and has no "n/a"; the classifier
\* is never called for a group of existingGroups, and every pending group
\* has been through the classifier when the results are aggregated.
C27_FilterPartition ==
    /\ [][orchestration = "filter" /\ orchestration' = "filtered" =>
            \A g \in DOMAIN groupFile :
                /\ TimesIn(pendingGroups', g) + TimesIn(ExistingGroupsOf(existingGroups'), g) = 1
                /\ TimesIn(ExistingGroupsOf(existingGroups'), g) = 1 <=> Completed(groupFile[g])]_vars
    /\ [](\A g \in DOMAIN analysis :
            TimesIn(ExistingGroupsOf(existingGroups), g) > 0 => analysis[g].phase = "none")
    /\ [](orchestration \in {"aggregate", "done"} => PendingSettled)

\* The number of icons of the groups in the phase.
RECURSIVE SizeFrom(_, _)
SizeFrom(phase, g) ==
    IF g > Len(allIconGroups) THEN 0
    ELSE (IF analysis[g].phase = phase THEN Len(allIconGroups[g].files) ELSE 0)
         + SizeFrom(phase, g + 1)

SizeOfPhase(phase) == SizeFrom(phase, 1)

\* C28: at most 2 groups are with the classifier at any moment, a group
\* that waits for its retry among them; while groups wait for a slot both
\* slots are taken, whatever failed before; nothing stops the run while a
\* group is unsettled; and the aggregation starts only when every pending
\* group has its result saved or its failure counted.
C28_TwoAtATime ==
    /\ Cardinality(Active(analysis)) <= 2
    /\ orchestration = "classify" /\ (\E g \in DOMAIN analysis : analysis[g].phase = "buffered") =>
            Cardinality(Active(analysis)) = 2
    /\ orchestration \in {"aggregate", "done", "crashed"} =>
            /\ PendingSettled \/ \A g \in DOMAIN analysis : analysis[g].phase = "none"
            /\ \A g \in DOMAIN analysis : analysis[g].phase = "saved" => groupFile[g] = "result"
    /\ orchestration = "classify" =>
            /\ errors = SizeOfPhase("failed")
            /\ newAssignments = SizeOfPhase("saved")

\* One group has failed, one waits for its retry, the third is with the
\* classifier.
C28_Witness ==
    /\ orchestration = "classify"
    /\ Len(pendingGroups) = 3
    /\ \E g \in DOMAIN analysis : analysis[g].phase = "failed"
    /\ \E g \in DOMAIN analysis : analysis[g].phase = "delaying"
    /\ \E g \in DOMAIN analysis : analysis[g].phase = "calling"

\* The delay a message of the model asks for.
DelayOf(message) ==
    IF message = <<"exceeded token", "rate limit", "retry after", "15", "seconds">>
    THEN 15 ELSE 30

\* C30: a group is attempted again exactly when the message of the failed
\* attempt contains "rate limit", and only when the timer set to the delay
\* of the message (30 by default) has fired; any other failure is counted
\* as the failure of the group, once, without another attempt; there is no
\* limit to the attempts, and a group settles only on an attempt that is
\* not rate-limited.
C30_RetryOnRateLimit ==
    [][\A g \in DOMAIN analysis :
        /\ analysis'[g].attempts = analysis[g].attempts + 1 =>
            /\ analysis[g].phase = "delaying"
            /\ analysis'[g].phase = "calling"
            /\ Includes(analysis[g].error, "rate limit")
            /\ analysis[g].timer = DelayOf(analysis[g].error)
        /\ analysis[g].phase = "caught" /\ analysis'[g] # analysis[g] =>
            IF \E i \in 1..Len(analysis[g].error) : analysis[g].error[i] = "rate limit"
            THEN /\ analysis'[g].phase = "delaying"
                 /\ analysis'[g].attempts = analysis[g].attempts
                 /\ analysis'[g].timer = DelayOf(analysis[g].error)
                 /\ errors' = errors
            ELSE /\ analysis'[g].phase = "failed"
                 /\ errors' = errors + Len(allIconGroups[g].files)
        /\ analysis[g].phase = "delaying" /\ analysis'[g] # analysis[g] =>
            analysis'[g].phase = "calling"
        /\ analysis[g].phase \in {"saved", "failed"} => analysis'[g] = analysis[g]
        /\ analysis[g].phase \notin {"saved", "failed"} /\ analysis'[g].phase \in {"saved", "failed"} =>
            /\ analysis[g].phase \in {"caught", "saving"}
            /\ ~Includes(analysis[g].error, "rate limit")
        /\ errors' # errors =>
            \E f \in DOMAIN analysis :
                /\ analysis[f].phase # "failed"
                /\ analysis'[f].phase = "failed"
                /\ errors' = errors + Len(allIconGroups[f].files)]_vars

\* A group is rate-limited again after as many re-attempts as the model
\* follows, and another group has failed without a re-attempt.
C30_Witness ==
    /\ orchestration = "classify"
    /\ \E g \in DOMAIN analysis :
        /\ analysis[g].phase = "caught"
        /\ analysis[g].attempts = MaxAttempts
        /\ analysis[g].error = <<"No JSON array found in response">>
    /\ \E g \in DOMAIN analysis : analysis[g].phase = "failed"
    /\ errors > 0


====
